---- MODULE Spec2Model ----
(***************************************************************************)
(* Harmony: one-way directory synchronisation (client -> server slot).     *)
(* Model of the server's sync session handlers (harmony-server             *)
(* http/routes.rs, http/state.rs, paths.rs, data.rs), of the differ        *)
(* (harmony-differ diffing.rs) and of the client's run (harmony-client     *)
(* main.rs).                                                               *)
(*                                                                         *)
(* Paths are sequences of components; a leading "/" component is the root. *)
(* The filesystem is a map from resolved locations (relative to the slot's *)
(* content directory) to entries, plus the per-session staging directories *)
(* open-sync-<x>/pending and open-sync-<x>/complete, which are keyed by    *)
(* the string <x> the handler passes to Paths::slot_transfer_dir.          *)
(***************************************************************************)
EXTENDS Integers, Sequences, FiniteSets, TLC

(***************************************************************************)
(* Bounds of the model.                                                    *)
(***************************************************************************)
\* generate_id() draws from 1..MaxId
MaxId == 2
\* file sizes and request body lengths range over 0..MaxSize
MaxSize == 1
\* number of requests the server receives in one run
MaxRequests == 2
MaxTransfers == 3
MaxOpenRequests == 3

Ids == 1..MaxId

\* The request handlers that can run at the same time. They are
\* interchangeable tasks: a request is served by the first free one.
HandlerOrder == <<"h1", "h2">>
Procs == {HandlerOrder[i] : i \in 1..Len(HandlerOrder)}

(***************************************************************************)
(* Paths (std::path::Path as used by the server).                          *)
(***************************************************************************)
\* The request paths of the model, listed in the byte order of their
\* '/'-joined strings: "", "../v", "./a.txt", "/v", "a.txt", "sub",
\* "sub/./b.txt", "sub/b.txt" (String::cmp, used by the sorts of the differ).
PathsInByteOrder ==
    << <<>>, <<"..", "v">>, <<".", "a.txt">>, <<"/", "v">>, <<"a.txt">>,
       <<"sub">>, <<"sub", ".", "b.txt">>, <<"sub", "b.txt">> >>

RawPaths == {PathsInByteOrder[i] : i \in 1..Len(PathsInByteOrder)}

PathRank(p) == CHOOSE i \in 1..Len(PathsInByteOrder) : PathsInByteOrder[i] = p

\* a.cmp(b) on path strings: a < b
PathLess(a, b) == PathRank(a) < PathRank(b)

\* Path::has_root
has_root(p) == Len(p) > 0 /\ p[1] = "/"

\* Path::iter (Components): a "." is normalised away except at the start
PathIter(p) ==
    SelectSeq([i \in 1..Len(p) |-> <<i, p[i]>>],
              LAMBDA c : c[1] = 1 \/ c[2] # ".")

\* paths.rs is_relative_linear_path: TRUE when the path has a root or one of
\* the components Path::iter yields is "." or ".."
is_relative_linear_path(p) ==
    \/ has_root(p)
    \/ \E i \in 1..Len(PathIter(p)) : PathIter(p)[i][2] \in {".", ".."}

\* What the operating system makes of <content dir>.join(p): an absolute p
\* replaces the base; "." stays in place; ".." goes to the parent.
RECURSIVE Walk(_, _)
Walk(stack, rest) ==
    IF rest = <<>> THEN stack
    ELSE LET c == Head(rest) IN
         IF c = "." THEN Walk(stack, Tail(rest))
         ELSE IF c = ".."
              THEN IF stack # <<>> /\ stack[Len(stack)] # ".."
                   THEN Walk(SubSeq(stack, 1, Len(stack) - 1), Tail(rest))
                   ELSE Walk(Append(stack, ".."), Tail(rest))
              ELSE Walk(Append(stack, c), Tail(rest))

Resolve(p) == IF has_root(p) THEN p ELSE Walk(<<>>, p)

\* Locations of the model: <<>> is the content directory itself, <<"..", x>>
\* lies in the slot root beside it, <<"/", x>> is absolute.
Locs == {Resolve(p) : p \in RawPaths} \cup {<<>>}

InsideContent(loc) == loc = <<>> \/ (loc[1] # ".." /\ loc[1] # "/")

(***************************************************************************)
(* Filesystem entries and the filesystem calls the handlers make.          *)
(***************************************************************************)
NoEntry == [kind |-> "none", size |-> 0, mtime_s |-> 0, mtime_ns |-> 0]
DirEntry == [kind |-> "dir", size |-> 0, mtime_s |-> 0, mtime_ns |-> 0]
FileEntry(size, s, ns) == [kind |-> "file", size |-> size, mtime_s |-> s, mtime_ns |-> ns]

\* mtime (seconds) a file gets when it is created or written
NowS == 3

Parent(loc) == SubSeq(loc, 1, Len(loc) - 1)

\* every directory on the way to loc exists
ParentIsDir(f, loc) ==
    /\ loc # <<>>
    /\ (~has_root(loc) => f[<<>>].kind = "dir")
    /\ (Parent(loc) \in DOMAIN f => f[Parent(loc)].kind = "dir")

HasChild(f, loc) ==
    \E c \in DOMAIN f : c # <<>> /\ Parent(c) = loc /\ f[c].kind # "none"

Reachable(f, loc) == IF loc = <<>> THEN TRUE ELSE ParentIsDir(f, loc)

\* fs::remove_file
remove_file(f, loc) ==
    IF loc \in DOMAIN f /\ Reachable(f, loc) /\ f[loc].kind = "file"
    THEN [ok |-> TRUE, fs |-> [f EXCEPT ![loc] = NoEntry]]
    ELSE [ok |-> FALSE, fs |-> f]

\* (a removal that does not require the directory to be empty)
remove_dir_all(f, loc) ==
    IF loc \in DOMAIN f /\ Reachable(f, loc) /\ f[loc].kind = "dir"
    THEN [ok |-> TRUE, fs |-> [f EXCEPT ![loc] = NoEntry]]
    ELSE [ok |-> FALSE, fs |-> f]

\* fs::remove_dir: the directory must be empty
remove_dir(f, loc) ==
    IF loc \in DOMAIN f /\ Reachable(f, loc) /\ f[loc].kind = "dir" /\ ~HasChild(f, loc)
    THEN [ok |-> TRUE, fs |-> [f EXCEPT ![loc] = NoEntry]]
    ELSE [ok |-> FALSE, fs |-> f]

\* fs::create_dir: fails when something is already there
create_dir(f, loc) ==
    IF loc \in DOMAIN f /\ ParentIsDir(f, loc) /\ f[loc].kind = "none"
    THEN [ok |-> TRUE, fs |-> [f EXCEPT ![loc] = DirEntry]]
    ELSE [ok |-> FALSE, fs |-> f]

\* fs::rename of a regular file onto loc: replaces a file, fails on a directory
rename_onto(f, entry, loc) ==
    IF loc \in DOMAIN f /\ ParentIsDir(f, loc) /\ f[loc].kind # "dir"
    THEN [ok |-> TRUE, fs |-> [f EXCEPT ![loc] = entry]]
    ELSE [ok |-> FALSE, fs |-> f]

(***************************************************************************)
(* Snapshot metadata and diffs (harmony-differ).                           *)
(***************************************************************************)
Directory == [kind |-> "Directory", size |-> 0, last_modif_date_s |-> 0, last_modif_date_ns |-> 0]
File(mt) == [kind |-> "File", size |-> mt.size,
             last_modif_date_s |-> mt.last_modif_date_s,
             last_modif_date_ns |-> mt.last_modif_date_ns]
FileMeta(size, s, ns) == [size |-> size, last_modif_date_s |-> s, last_modif_date_ns |-> ns]
MetaOf(md) == FileMeta(md.size, md.last_modif_date_s, md.last_modif_date_ns)

EmptyDiff == [added |-> <<>>, modified |-> <<>>, type_changed |-> <<>>, deleted |-> <<>>]

\* Elements of s, in order, that satisfy Test, mapped through Map
FilterMap(s, Test(_), Map(_)) ==
    LET kept == SelectSeq(s, Test) IN [i \in 1..Len(kept) |-> Map(kept[i])]

Reverse(s) == [i \in 1..Len(s) |-> s[Len(s) + 1 - i]]

\* (a partition that lists each bucket from the last item to the first)
DiffNewReversed(items) ==
    [added        |-> FilterMap(Reverse(items), LAMBDA it : it.status = "Added",
                                LAMBDA it : <<it.path, [new |-> it.new]>>),
     modified     |-> FilterMap(Reverse(items), LAMBDA it : it.status = "Modified",
                                LAMBDA it : <<it.path, [prev |-> MetaOf(it.prev), new |-> MetaOf(it.new)]>>),
     type_changed |-> FilterMap(Reverse(items), LAMBDA it : it.status = "TypeChanged",
                                LAMBDA it : <<it.path, [prev |-> it.prev, new |-> it.new]>>),
     deleted      |-> FilterMap(Reverse(items), LAMBDA it : it.status = "Deleted",
                                LAMBDA it : <<it.path, [prev |-> it.prev]>>)]

\* Diff::new: partition the items, in order, into the four buckets
DiffNew(items) ==
    [added        |-> FilterMap(items, LAMBDA it : it.status = "Added",
                                LAMBDA it : <<it.path, [new |-> it.new]>>),
     modified     |-> FilterMap(items, LAMBDA it : it.status = "Modified",
                                LAMBDA it : <<it.path, [prev |-> MetaOf(it.prev), new |-> MetaOf(it.new)]>>),
     type_changed |-> FilterMap(items, LAMBDA it : it.status = "TypeChanged",
                                LAMBDA it : <<it.path, [prev |-> it.prev, new |-> it.new]>>),
     deleted      |-> FilterMap(items, LAMBDA it : it.status = "Deleted",
                                LAMBDA it : <<it.path, [prev |-> it.prev]>>)]

\* insertion of x into a sequence sorted descending by path
RECURSIVE InsertDesc(_, _)
InsertDesc(x, s) ==
    IF s = <<>> THEN <<x>>
    ELSE IF PathLess(Head(s), x) THEN <<x>> \o s
         ELSE <<Head(s)>> \o InsertDesc(x, Tail(s))

\* sort_rev_in_place: vec.sort_by(|a, b| b.cmp(a))
RECURSIVE sort_rev_in_place(_)
sort_rev_in_place(v) ==
    IF v = <<>> THEN <<>> ELSE InsertDesc(Head(v), sort_rev_in_place(Tail(v)))

\* a plan whose delete_empty_dirs is left in the order of the chain
DiffApplyOpsUnsorted(diff) ==
    [create_dirs |->
        sort_rev_in_place(
            FilterMap(diff.added, LAMBDA e : e[2].new.kind = "Directory", LAMBDA e : e[1])
            \o FilterMap(diff.type_changed, LAMBDA e : e[2].new.kind = "Directory", LAMBDA e : e[1])),
     send_files |->
        FilterMap(diff.added, LAMBDA e : e[2].new.kind = "File", LAMBDA e : <<e[1], MetaOf(e[2].new)>>)
        \o FilterMap(diff.modified, LAMBDA e : TRUE, LAMBDA e : <<e[1], e[2].new>>)
        \o FilterMap(diff.type_changed, LAMBDA e : e[2].new.kind = "File",
                     LAMBDA e : <<e[1], MetaOf(e[2].new)>>),
     delete_files |->
        FilterMap(diff.deleted \o diff.type_changed,
                  LAMBDA e : e[2].prev.kind = "File", LAMBDA e : e[1]),
     delete_empty_dirs |->
        FilterMap(Reverse(diff.deleted \o diff.type_changed),
                  LAMBDA e : e[2].prev.kind = "Directory", LAMBDA e : e[1])]

\* a plan that leaves the previous side of type_changed where it is
DiffApplyOpsKeepsTypeChanged(diff) ==
    [create_dirs |->
        sort_rev_in_place(
            FilterMap(diff.added, LAMBDA e : e[2].new.kind = "Directory", LAMBDA e : e[1])
            \o FilterMap(diff.type_changed, LAMBDA e : e[2].new.kind = "Directory", LAMBDA e : e[1])),
     send_files |->
        FilterMap(diff.added, LAMBDA e : e[2].new.kind = "File", LAMBDA e : <<e[1], MetaOf(e[2].new)>>)
        \o FilterMap(diff.modified, LAMBDA e : TRUE, LAMBDA e : <<e[1], e[2].new>>)
        \o FilterMap(diff.type_changed, LAMBDA e : e[2].new.kind = "File",
                     LAMBDA e : <<e[1], MetaOf(e[2].new)>>),
     delete_files |->
        FilterMap(diff.deleted, LAMBDA e : e[2].prev.kind = "File", LAMBDA e : e[1]),
     delete_empty_dirs |->
        sort_rev_in_place(
            FilterMap(Reverse(diff.deleted),
                      LAMBDA e : e[2].prev.kind = "Directory", LAMBDA e : e[1]))]

\* DiffApplyOps::new
DiffApplyOps(diff) ==
    [create_dirs |->
        sort_rev_in_place(
            FilterMap(diff.added, LAMBDA e : e[2].new.kind = "Directory", LAMBDA e : e[1])
            \o FilterMap(diff.type_changed, LAMBDA e : e[2].new.kind = "Directory", LAMBDA e : e[1])),
     send_files |->
        FilterMap(diff.added, LAMBDA e : e[2].new.kind = "File", LAMBDA e : <<e[1], MetaOf(e[2].new)>>)
        \o FilterMap(diff.modified, LAMBDA e : TRUE, LAMBDA e : <<e[1], e[2].new>>)
        \o FilterMap(diff.type_changed, LAMBDA e : e[2].new.kind = "File",
                     LAMBDA e : <<e[1], MetaOf(e[2].new)>>),
     delete_files |->
        FilterMap(diff.deleted \o diff.type_changed,
                  LAMBDA e : e[2].prev.kind = "File", LAMBDA e : e[1]),
     delete_empty_dirs |->
        sort_rev_in_place(
            FilterMap(Reverse(diff.deleted \o diff.type_changed),
                      LAMBDA e : e[2].prev.kind = "Directory", LAMBDA e : e[1]))]

(***************************************************************************)
(* Inputs: the file metadata and the diffs a client may send to begin.     *)
(* The server deserialises any Diff, so the diffs are not limited to what  *)
(* Diff::build produces.                                                   *)
(***************************************************************************)
\* metadata of the files already on the server
OldMeta == FileMeta(1, 1, 0)
\* metadata of the files a client announces
NewMetas == {FileMeta(sz, 2, 0) : sz \in 1..MaxSize}
ZeroMeta == FileMeta(0, 0, 0)

Item(status, path, prev, new) == [status |-> status, path |-> path, prev |-> prev, new |-> new]

NewMeta1 == FileMeta(1, 2, 0)
NewMetaMax == FileMeta(MaxSize, 2, 0)

\* the items a diff may hold at path p, files announced with metadata in metas
ItemsAt(p, metas) ==
    {Item("Added", p, Directory, Directory)}
    \cup {Item("Added", p, Directory, File(m)) : m \in metas}
    \cup {Item("Modified", p, File(OldMeta), File(m)) : m \in metas}
    \cup {Item("TypeChanged", p, Directory, File(m)) : m \in metas}
    \cup {Item("TypeChanged", p, File(OldMeta), Directory),
          Item("Deleted", p, Directory, Directory),
          Item("Deleted", p, File(OldMeta), File(OldMeta))}

\* diffs of several items: a fresh sync of a.txt, sub/ and sub/b.txt; a
\* directory removed with its file; a directory with a file replaced by a
\* file; a file replaced by a directory with a file in it
MultiItemDiffs ==
    {DiffNew(<<Item("Added", <<"a.txt">>, Directory, File(NewMeta1)),
               Item("Added", <<"sub">>, Directory, Directory),
               Item("Added", <<"sub", "b.txt">>, Directory, File(NewMetaMax))>>),
     DiffNew(<<Item("Deleted", <<"sub">>, Directory, Directory),
               Item("Deleted", <<"sub", "b.txt">>, File(OldMeta), File(OldMeta))>>),
     DiffNew(<<Item("TypeChanged", <<"sub">>, Directory, File(NewMeta1)),
               Item("Deleted", <<"sub", "b.txt">>, File(OldMeta), File(OldMeta))>>),
     DiffNew(<<Item("TypeChanged", <<"sub">>, File(OldMeta), Directory),
               Item("Added", <<"sub", "b.txt">>, Directory, File(NewMeta1))>>)}

\* the same path announced twice, with different metadata
TwiceDiff ==
    DiffNew(<<Item("Added", <<"a.txt">>, Directory, File(NewMeta1)),
              Item("Modified", <<"a.txt">>, File(OldMeta), File(FileMeta(0, 3, 0)))>>)

\* every diff of at most one item, over every path
OneItemDiffs ==
    {EmptyDiff} \cup {DiffNew(<<it>>) : it \in UNION {ItemsAt(p, NewMetas) : p \in RawPaths}}

\* the diffs sent to sessions that are opened, resumed and finalized
\* without transfers
AnyDiffs == OneItemDiffs \cup MultiItemDiffs \cup {TwiceDiff}

\* the diffs sent to sessions that go on to transfers
SessionDiffs ==
    {EmptyDiff,
     DiffNew(<<Item("Modified", <<"a.txt">>, File(OldMeta), File(NewMeta1))>>),
     DiffNew(<<Item("TypeChanged", <<"sub">>, File(OldMeta), Directory)>>)}
    \cup MultiItemDiffs

\* A tree: sub absent, a file, an empty directory or a directory holding
\* b.txt; a.txt a file beside a directory sub, absent otherwise; e is the
\* entry of each file. The two files outside the content directory exist.
Shapes == {"none", "file", "empty", "full"}

Tree(s, e) ==
    [l \in Locs |->
        IF l = <<>> THEN DirEntry
        ELSE IF ~InsideContent(l) THEN FileEntry(1, 1, 0)
        ELSE IF l = <<"a.txt">> THEN (IF s \in {"empty", "full"} THEN e ELSE NoEntry)
        ELSE IF l = <<"sub">>
             THEN (IF s = "file" THEN e ELSE IF s = "none" THEN NoEntry ELSE DirEntry)
        ELSE IF l = <<"sub", "b.txt">> THEN (IF s = "full" THEN e ELSE NoEntry)
        ELSE NoEntry]

\* the content trees the server starts from
InitTrees == {Tree(s, FileEntry(1, 1, 0)) : s \in Shapes}

(***************************************************************************)
(* State.                                                                  *)
(***************************************************************************)
VARIABLES
    fs,          \* the content tree and the two locations outside it
    dirs,        \* dirs[x]: which of open-sync-<x>, .../pending, .../complete exist
    pending,     \* pending[x][f]: the file open-sync-<x>/pending/<f>
    markers,     \* markers[x][f]: whether open-sync-<x>/complete/<f> is a file
    open_sync,   \* SlotSync.open_sync: <<>> (None) or <<OpenSync>> (Some)
    wlock,       \* the handlers holding the slot's RwLock for writing
    req,         \* req[h]: the request handler h is serving, and its result
    resp,        \* the response sent by the last step, if it sent one
    nreq,        \* begin, resume and finalize requests received so far
    nsend,       \* transfer requests received so far
    client       \* the client's run (harmony-client inner_main)

vars == <<fs, dirs, pending, markers, open_sync, wlock, req, resp, nreq, nsend, client>>

NoDirs == [root |-> FALSE, pending |-> FALSE, complete |-> FALSE]

NoInfos == [sync_token |-> 0, transfer_file_ids |-> <<>>, tranfer_size |-> 0]

IdleReq ==
    [op |-> "idle", pc |-> "idle", status |-> "", diff |-> EmptyDiff, sync_token |-> 0,
     sync_id |-> 0, path |-> <<>>, len |-> 0, tmp_dir |-> 0, file_id |-> 0,
     metadata |-> ZeroMeta, infos |-> NoInfos]

\* resp.before is SlotSync.open_sync as the responding step found it
NoResp == [req |-> IdleReq, status |-> "", infos |-> NoInfos, before |-> <<>>]

NoClient == [pc |-> "off"]

\* HttpState::new / SlotSync::new: every slot starts with open_sync = None
SlotAtStart ==
    /\ fs \in InitTrees
    /\ dirs = [x \in Ids |-> NoDirs]
    /\ pending = [x \in Ids |-> [f \in Ids |-> NoEntry]]
    /\ markers = [x \in Ids |-> [f \in Ids |-> FALSE]]
    /\ open_sync = <<>>
    /\ wlock = {}

InitServer ==
    /\ SlotAtStart
    /\ req = [h \in Procs |-> IdleReq]
    /\ resp = NoResp
    /\ nreq = 0
    /\ nsend = 0

Init == InitServer /\ client = NoClient

(***************************************************************************)
(* OpenSync (http/state.rs).                                               *)
(***************************************************************************)
RECURSIVE SumSizes(_)
SumSizes(s) == IF s = <<>> THEN 0 ELSE Head(s)[2].size + SumSizes(Tail(s))

\* the (relative_path -> (generate_id(), mt)) pairs collected into a HashMap:
\* a later pair with the same key replaces an earlier one
FilesMap(send_files, fids) ==
    [p \in {send_files[i][1] : i \in 1..Len(send_files)} |->
        LET last == CHOOSE i \in 1..Len(send_files) :
                        /\ send_files[i][1] = p
                        /\ \A j \in (i + 1)..Len(send_files) : send_files[j][1] # p
        IN [file_id |-> fids[last], metadata |-> send_files[last][2]]]

\* OpenSync::new, with the results of its generate_id() calls: id, token and
\* one id per entry of send_files. BAD_REQUEST when is_relative_linear_path
\* is true of a send_files path.
OpenSyncNew(diff, id, token, fids) ==
    LET ops == DiffApplyOps(diff) IN
    IF \E i \in 1..Len(ops.send_files) : is_relative_linear_path(ops.send_files[i][1])
    THEN [ok |-> FALSE, os |-> <<>>]
    ELSE [ok |-> TRUE,
          os |-> <<[id |-> id, token |-> token, diff |-> diff, diff_ops |-> ops,
                    files |-> FilesMap(ops.send_files, fids)]>>]

\* (a regeneration that also renames the session)
regenerate_id_and_token(os, id) == [os EXCEPT !.token = id, !.id = id]

\* OpenSync::regenerate_access_token
regenerate_access_token(os, id) == [os EXCEPT !.token = id]

(***************************************************************************)
(* begin_sync (routes.rs 118-193).                                         *)
(***************************************************************************)
\* the loop over delete_files: stops at the first removal that fails
RECURSIVE RemoveFiles(_, _)
RemoveFiles(f, paths) ==
    IF paths = <<>> THEN [ok |-> TRUE, fs |-> f]
    ELSE LET r == remove_file(f, Resolve(Head(paths))) IN
         IF r.ok THEN RemoveFiles(r.fs, Tail(paths)) ELSE r

\* (a loop over delete_empty_dirs that removes nothing)
RemoveDirsSkips(f, paths) == [ok |-> TRUE, fs |-> f]

\* the loop over delete_empty_dirs
RECURSIVE RemoveDirs(_, _)
RemoveDirs(f, paths) ==
    IF paths = <<>> THEN [ok |-> TRUE, fs |-> f]
    ELSE LET r == remove_dir(f, Resolve(Head(paths))) IN
         IF r.ok THEN RemoveDirs(r.fs, Tail(paths)) ELSE r

\* (a SyncInfos that returns the session id as the token)
BeginInfosWithId(os) ==
    [sync_token |-> os.id,
     transfer_file_ids |-> [k \in DOMAIN os.files |-> os.files[k].file_id],
     tranfer_size |-> SumSizes(os.diff_ops.send_files)]

\* the SyncInfos of begin_sync: the map is built from (key, (value.0, _)) of
\* OpenSync.files, whose keys are the relative paths
BeginInfos(os) ==
    [sync_token |-> os.token,
     transfer_file_ids |-> [k \in DOMAIN os.files |-> os.files[k].file_id],
     tranfer_size |-> SumSizes(os.diff_ops.send_files)]

\* (a begin_sync without the test of open_sync)
AlreadyOpenNever(cur) == FALSE

\* the check that refuses a second session
AlreadyOpen(cur) == cur # <<>>

\* (a begin_sync that stores the OpenSync as soon as it is built)
StoredFirst(cur, built) == built

\* slot.open_sync = Some(open_sync) is the last statement before the
\* response: a begin_sync that returns early leaves the slot as it found it
StoredLast(cur, built) == cur

\* The body of begin_sync under the write lock, as a function of the state it
\* reads and of the ids generate_id() returns: the status of the response and
\* the state it leaves.
BeginEffect(cur, f, d, diff, id, token, fids) ==
    LET new == OpenSyncNew(diff, id, token, fids)
        same == [status |-> "FORBIDDEN", fs |-> f, dirs |-> d, infos |-> NoInfos,
                 open_sync |-> IF AlreadyOpen(cur) THEN cur ELSE StoredLast(cur, new.os)]
        d1 == [d EXCEPT ![id].root = TRUE]
        d2 == [d1 EXCEPT ![id].pending = TRUE]
        d3 == [d2 EXCEPT ![id].complete = TRUE]
    IN
    IF AlreadyOpen(cur) THEN same
    ELSE IF ~new.ok THEN [same EXCEPT !.status = "BAD_REQUEST"]
    ELSE IF d[id].root THEN [same EXCEPT !.status = "INTERNAL_SERVER_ERROR"]
    ELSE IF d1[id].pending THEN [same EXCEPT !.status = "INTERNAL_SERVER_ERROR", !.dirs = d1]
    ELSE IF d2[id].complete THEN [same EXCEPT !.status = "INTERNAL_SERVER_ERROR", !.dirs = d2]
    ELSE LET os == new.os[1]
             r1 == RemoveFiles(f, os.diff_ops.delete_files)
             r2 == RemoveDirs(r1.fs, os.diff_ops.delete_empty_dirs)
         IN
         IF ~r1.ok
         THEN [same EXCEPT !.status = "INTERNAL_SERVER_ERROR", !.dirs = d3, !.fs = r1.fs]
         ELSE IF ~r2.ok
         THEN [same EXCEPT !.status = "INTERNAL_SERVER_ERROR", !.dirs = d3, !.fs = r2.fs]
         ELSE [status |-> "OK", fs |-> r2.fs, dirs |-> d3, open_sync |-> new.os,
               infos |-> BeginInfos(os)]

(***************************************************************************)
(* resume_open_sync (routes.rs 222-291).                                   *)
(***************************************************************************)
\* <dir>.join(key).exists() for a staging directory and a key of
\* OpenSync.files: the keys are relative paths, never file ids, so the join
\* names something that exists only when it resolves to the directory itself
JoinExists(dirExists, key) == dirExists /\ Resolve(key) = <<>>

\* the keys resume keeps in remaining_files
RemainingFiles(os, d) ==
    {k \in DOMAIN os.files : ~JoinExists(d[os.id].complete, k)}

\* send_files.iter().filter(|(id, _)| remaining_files.contains_key(id))
RECURSIVE SumRemaining(_, _)
SumRemaining(send_files, remaining) ==
    IF send_files = <<>> THEN 0
    ELSE (IF Head(send_files)[1] \in remaining THEN Head(send_files)[2].size ELSE 0)
         + SumRemaining(Tail(send_files), remaining)

\* The body of resume_open_sync under the write lock; tok is the id
\* regenerate_access_token draws. The token is replaced before the loop, so
\* it is replaced even when the loop fails.
ResumeEffect(cur, d, tok) ==
    IF cur = <<>>
    THEN [status |-> "CONFLICT", open_sync |-> cur, infos |-> NoInfos]
    ELSE LET os == regenerate_access_token(cur[1], tok)
             remaining == RemainingFiles(os, d)
         IN
         IF \E k \in DOMAIN os.files : JoinExists(d[os.id].root, k)
         THEN \* fs::remove_file on a directory
              [status |-> "INTERNAL_SERVER_ERROR", open_sync |-> <<os>>, infos |-> NoInfos]
         ELSE [status |-> "OK", open_sync |-> <<os>>,
               infos |-> [sync_token |-> tok,
                          transfer_file_ids |-> [k \in remaining |-> os.files[k].file_id],
                          tranfer_size |-> SumRemaining(os.diff_ops.send_files, remaining)]]

(***************************************************************************)
(* finalize_sync (routes.rs 299-381).                                      *)
(***************************************************************************)
\* (a handler that accepts any token)
TokenMatchesAlways(os, token) == TRUE

\* the token check of finalize_sync and of send_file
TokenMatches(os, token) == os.token = token

\* The loop over OpenSync.files, in the order `order` the HashMap yields its
\* keys: each marker is checked and removed at once; the loop stops at the
\* first file whose marker is missing.
RECURSIVE CheckMarkers(_, _, _)
CheckMarkers(m, os, order) ==
    IF order = <<>> THEN [ok |-> TRUE, markers |-> m]
    ELSE LET fid == os.files[Head(order)].file_id IN
         IF ~m[fid] THEN [ok |-> FALSE, markers |-> m]
         ELSE CheckMarkers([m EXCEPT ![fid] = FALSE], os, Tail(order))

\* the loop over create_dirs
RECURSIVE CreateDirs(_, _)
CreateDirs(f, paths) ==
    IF paths = <<>> THEN [ok |-> TRUE, fs |-> f]
    ELSE LET r == create_dir(f, Resolve(Head(paths))) IN
         IF r.ok THEN CreateDirs(r.fs, Tail(paths)) ELSE r

\* the orders in which a HashMap may yield the keys
Orders(keys) ==
    {o \in [1..Cardinality(keys) -> keys] : \A i, j \in DOMAIN o : i # j => o[i] # o[j]}

\* (a finalize that closes the session and leaves its directories)
FinalizeKeepsDirs(cur, f, d, pend, mk, token, order) ==
    [status |-> IF cur = <<>> THEN "NOT_FOUND" ELSE "OK",
     fs |-> f, dirs |-> d, markers |-> mk, open_sync |-> <<>>]

\* The body of finalize_sync under the write lock.
FinalizeEffect(cur, f, d, pend, mk, token, order) ==
    LET same == [status |-> "NOT_FOUND", fs |-> f, dirs |-> d, markers |-> mk, open_sync |-> cur] IN
    IF cur = <<>> THEN same
    ELSE LET os == cur[1]
             x == os.id
             r1 == CheckMarkers(mk[x], os, order)
             mk1 == [mk EXCEPT ![x] = r1.markers]
             r2 == CreateDirs(f, os.diff_ops.create_dirs)
             d1 == [d EXCEPT ![x].pending = FALSE]
             d2 == [d1 EXCEPT ![x].complete = FALSE]
             d3 == [d2 EXCEPT ![x].root = FALSE]
             after1 == [same EXCEPT !.status = "INTERNAL_SERVER_ERROR", !.markers = mk1]
             after2 == [after1 EXCEPT !.fs = r2.fs]
         IN
         IF ~TokenMatches(os, token) THEN [same EXCEPT !.status = "BAD_REQUEST"]
         ELSE IF ~r1.ok THEN [after1 EXCEPT !.status = "BAD_REQUEST"]
         ELSE IF ~r2.ok THEN after2
         ELSE IF ~d[x].pending \/ \E i \in Ids : pend[x][i].kind # "none" THEN after2
         ELSE IF ~d1[x].complete \/ \E i \in Ids : mk1[x][i] THEN [after2 EXCEPT !.dirs = d1]
         ELSE IF ~d2[x].root THEN [after2 EXCEPT !.dirs = d2]
         ELSE [status |-> "OK", fs |-> r2.fs, dirs |-> d3, markers |-> mk1, open_sync |-> <<>>]

(***************************************************************************)
(* The handlers as actions. A request is received when its handler starts: *)
(* a handler that needs the slot's write lock holds it from the step that  *)
(* obtains it (pc = "locked") to the end of its body;                      *)
(* send_file reads the session under the read lock when it starts and then *)
(* runs without any lock. A step that ends a request records the response  *)
(* in resp and frees the handler.                                          *)
(***************************************************************************)
Respond(h, status, infos) ==
    /\ req' = [req EXCEPT ![h] = IdleReq]
    /\ resp' = [req |-> req[h], status |-> status, infos |-> infos, before |-> open_sync]

Free(h) ==
    /\ req[h].pc = "idle"
    /\ \A i, j \in 1..Len(HandlerOrder) :
          (HandlerOrder[j] = h /\ i < j) => req[HandlerOrder[i]].pc # "idle"

\* (a write lock that waits for the transfers under way)
CanWriteAfterTransfers(h) ==
    wlock = {} /\ \A g \in DOMAIN req : req[g].op # "send_file"

\* slots.get(..).write().await of begin_sync, resume_open_sync, finalize_sync
CanWrite(h) == wlock = {}

\* a request waiting for the write lock obtains it
AcquireWrite(h) ==
    /\ req[h].pc = "lock"
    /\ CanWrite(h)
    /\ wlock' = wlock \cup {h}
    /\ req' = [req EXCEPT ![h].pc = "locked"]
    /\ resp' = NoResp
    /\ UNCHANGED <<fs, dirs, pending, markers, open_sync, nreq, nsend, client>>

\* A request for a handler that takes the write lock has no effect until it
\* holds the lock: it is received at the step that obtains the lock.
Receive(h, r, max) ==
    /\ Free(h)
    /\ nreq < max
    /\ CanWrite(h)
    /\ wlock' = wlock \cup {h}
    /\ req' = [req EXCEPT ![h] = [r EXCEPT !.pc = "locked"]]
    /\ resp' = NoResp
    /\ nreq' = nreq + 1
    /\ UNCHANGED <<fs, dirs, pending, markers, open_sync, nsend, client>>

\* a POST /sync/begin with any diff of the given set; while a session is
\* open begin_sync refuses the request before it looks at the diff, and one
\* diff stands for all
ReceiveBegin(h, diffs, max) ==
    \E d \in (IF open_sync = <<>> THEN diffs ELSE {EmptyDiff}) :
        Receive(h, [IdleReq EXCEPT !.op = "begin", !.diff = d], max)

ReceiveResume(h, max) == Receive(h, [IdleReq EXCEPT !.op = "resume"], max)

ReceiveFinalize(h, max) ==
    \E t \in Ids : Receive(h, [IdleReq EXCEPT !.op = "finalize", !.sync_token = t], max)

BeginSync(h) ==
    /\ req[h].op = "begin" /\ req[h].pc = "locked"
    /\ \E id \in Ids, token \in Ids,
          fids \in [1..Len(DiffApplyOps(req[h].diff).send_files) -> Ids] :
          LET e == BeginEffect(open_sync, fs, dirs, req[h].diff, id, token, fids) IN
          /\ fs' = e.fs
          /\ dirs' = e.dirs
          /\ open_sync' = e.open_sync
          /\ Respond(h, e.status, e.infos)
    /\ wlock' = wlock \ {h}
    /\ UNCHANGED <<pending, markers, nreq, nsend, client>>

ResumeOpenSync(h) ==
    /\ req[h].op = "resume" /\ req[h].pc = "locked"
    /\ \E tok \in Ids :
          LET e == ResumeEffect(open_sync, dirs, tok) IN
          /\ open_sync' = e.open_sync
          /\ Respond(h, e.status, e.infos)
    /\ wlock' = wlock \ {h}
    /\ UNCHANGED <<fs, dirs, pending, markers, nreq, nsend, client>>

FinalizeSync(h) ==
    /\ req[h].op = "finalize" /\ req[h].pc = "locked"
    /\ \E order \in Orders(IF open_sync = <<>> THEN {} ELSE DOMAIN open_sync[1].files) :
          LET e == FinalizeEffect(open_sync, fs, dirs, pending, markers,
                                  req[h].sync_token, order) IN
          /\ fs' = e.fs
          /\ dirs' = e.dirs
          /\ markers' = e.markers
          /\ open_sync' = e.open_sync
          /\ Respond(h, e.status, NoInfos)
    /\ wlock' = wlock \ {h}
    /\ UNCHANGED <<pending, nreq, nsend, client>>

(***************************************************************************)
(* send_file (routes.rs 390-524).                                          *)
(***************************************************************************)
\* the directory name send_file hands to slot_pending_dir and
\* slot_completion_dir: its sync_id parameter, which carries the token
TransferDirKey(os, sync_id) == sync_id

\* a path that is never a key of OpenSync.files (OpenSync::new refuses it);
\* it stands for every path send_file does not find in the map
UnknownPath == <<"..", "v">>

\* the requests POST /sync/file may carry: any token, a path of the open
\* session or one that is not
SendFileRequests ==
    {[IdleReq EXCEPT !.op = "send_file", !.pc = "check", !.sync_id = t, !.path = p] :
        t \in Ids,
        p \in (IF open_sync = <<>> THEN {} ELSE DOMAIN open_sync[1].files) \cup {UnknownPath}}

\* the outcome of lines 401-437, under the read lock, for a request whose
\* body has n bytes; the body of a request refused here is not read
SendFileLookup(cur, r, n) ==
    IF cur = <<>> THEN [status |-> "NOT_FOUND", req |-> r]
    ELSE IF ~TokenMatches(cur[1], r.sync_id) THEN [status |-> "BAD_REQUEST", req |-> r]
    ELSE IF r.path \notin DOMAIN cur[1].files THEN [status |-> "BAD_REQUEST", req |-> r]
    ELSE [status |-> "",
          req |-> [r EXCEPT !.pc = "create",
                            !.len = n,
                            !.tmp_dir = TransferDirKey(cur[1], r.sync_id),
                            !.file_id = cur[1].files[r.path].file_id,
                            !.metadata = cur[1].files[r.path].metadata]]

SendFileCheck(h) ==
    /\ Free(h)
    /\ nsend < MaxTransfers
    /\ wlock = {}
    /\ \E r \in SendFileRequests, n \in 0..MaxSize :
          LET l == SendFileLookup(open_sync, r, n) IN
          IF l.status # ""
          THEN /\ resp' = [req |-> r, status |-> l.status, infos |-> NoInfos, before |-> open_sync]
               /\ UNCHANGED req
          ELSE /\ req' = [req EXCEPT ![h] = l.req]
               /\ resp' = NoResp
    /\ nsend' = nsend + 1
    /\ UNCHANGED <<fs, dirs, pending, markers, open_sync, wlock, nreq, client>>

\* lines 439-462: a stale temporary file is removed, the file is created in
\* the pending directory and the body is written to it
SendFileWrite(h) ==
    /\ req[h].op = "send_file" /\ req[h].pc = "create"
    /\ LET x == req[h].tmp_dir
           fid == req[h].file_id
       IN IF ~dirs[x].pending
          THEN Respond(h, "INTERNAL_SERVER_ERROR", NoInfos) /\ UNCHANGED pending
          ELSE /\ pending' = [pending EXCEPT ![x][fid] = FileEntry(req[h].len, NowS, 0)]
               /\ req' = [req EXCEPT ![h].pc = "verify"]
               /\ resp' = NoResp
    /\ UNCHANGED <<fs, dirs, markers, open_sync, wlock, nreq, nsend, client>>

\* lines 464-490: the size check, then set_file_mtime on the temporary path
SendFileVerify(h) ==
    /\ req[h].op = "send_file" /\ req[h].pc = "verify"
    /\ LET x == req[h].tmp_dir
           fid == req[h].file_id
           mt == req[h].metadata
       IN IF req[h].len # mt.size
          THEN Respond(h, "BAD_REQUEST", NoInfos) /\ UNCHANGED pending
          ELSE IF pending[x][fid].kind # "file"
          THEN Respond(h, "INTERNAL_SERVER_ERROR", NoInfos) /\ UNCHANGED pending
          ELSE /\ pending' = [pending EXCEPT ![x][fid].mtime_s = mt.last_modif_date_s,
                                             ![x][fid].mtime_ns = mt.last_modif_date_ns]
               /\ req' = [req EXCEPT ![h].pc = "rename"]
               /\ resp' = NoResp
    /\ UNCHANGED <<fs, dirs, markers, open_sync, wlock, nreq, nsend, client>>

\* lines 492-504: rename of the temporary file to <content>/<path>
SendFileRename(h) ==
    /\ req[h].op = "send_file" /\ req[h].pc = "rename"
    /\ LET x == req[h].tmp_dir
           fid == req[h].file_id
           r == rename_onto(fs, pending[x][fid], Resolve(req[h].path))
       IN IF pending[x][fid].kind # "file" \/ ~r.ok
          THEN Respond(h, "INTERNAL_SERVER_ERROR", NoInfos) /\ UNCHANGED <<fs, pending>>
          ELSE /\ fs' = r.fs
               /\ pending' = [pending EXCEPT ![x][fid] = NoEntry]
               /\ req' = [req EXCEPT ![h].pc = "marker"]
               /\ resp' = NoResp
    /\ UNCHANGED <<dirs, markers, open_sync, wlock, nreq, nsend, client>>

\* lines 506-523: rename of the (already moved) temporary file to the marker
SendFileMarker(h) ==
    /\ req[h].op = "send_file" /\ req[h].pc = "marker"
    /\ LET x == req[h].tmp_dir
           fid == req[h].file_id
       IN IF pending[x][fid].kind # "file" \/ ~dirs[x].complete
          THEN Respond(h, "INTERNAL_SERVER_ERROR", NoInfos) /\ UNCHANGED <<pending, markers>>
          ELSE /\ markers' = [markers EXCEPT ![x][fid] = TRUE]
               /\ pending' = [pending EXCEPT ![x][fid] = NoEntry]
               /\ Respond(h, "OK", NoInfos)
    /\ UNCHANGED <<fs, dirs, open_sync, wlock, nreq, nsend, client>>

(***************************************************************************)
(* The server under any sequence of session requests and transfers.        *)
(***************************************************************************)
Next ==
    \E h \in Procs :
        \/ ReceiveBegin(h, SessionDiffs, MaxRequests)
        \/ ReceiveResume(h, MaxRequests)
        \/ ReceiveFinalize(h, MaxRequests)
        \/ BeginSync(h)
        \/ ResumeOpenSync(h)
        \/ FinalizeSync(h)
        \/ SendFileCheck(h)
        \/ SendFileWrite(h)
        \/ SendFileVerify(h)
        \/ SendFileRename(h)
        \/ SendFileMarker(h)

Spec == Init /\ [][Next]_vars

(***************************************************************************)
(* The server under begin, resume and finalize requests with any diff.     *)
(***************************************************************************)
NextOpen ==
    \E h \in Procs :
        \/ ReceiveBegin(h, AnyDiffs, MaxOpenRequests)
        \/ ReceiveResume(h, MaxOpenRequests)
        \/ ReceiveFinalize(h, MaxOpenRequests)
        \/ BeginSync(h)
        \/ ResumeOpenSync(h)
        \/ FinalizeSync(h)

SpecOpen == Init /\ [][NextOpen]_vars

(***************************************************************************)
(* Two begin calls made at the same time on a slot with no session, each   *)
(* with a diff that begin_sync accepts when it is alone.                   *)
(***************************************************************************)
AcceptedAlone(f) ==
    {d \in AnyDiffs :
        BeginEffect(<<>>, f, [x \in Ids |-> NoDirs], d, 1, 1,
                    [i \in 1..Len(DiffApplyOps(d).send_files) |-> 1]).status = "OK"}

InitBegin ==
    /\ SlotAtStart
    /\ \E d \in [Procs -> AcceptedAlone(fs)] :
          req = [h \in Procs |-> [IdleReq EXCEPT !.op = "begin", !.pc = "lock", !.diff = d[h]]]
    /\ resp = NoResp
    /\ nreq = Cardinality(Procs)
    /\ nsend = 0
    /\ client = NoClient

NextBegin == \E h \in Procs : AcquireWrite(h) \/ BeginSync(h)

SpecBegin == InitBegin /\ [][NextBegin]_vars

Answered == {h \in Procs : req[h].pc = "idle"}

\* C2 (as the code has it): of two concurrent begin calls on a slot with no
\* session, the first to answer succeeds and installs the session of its
\* diff, the second is refused with FORBIDDEN and leaves that session in
\* place; the slot never holds more than one OpenSync.
C2_OneBeginWins ==
    /\ Len(open_sync) <= 1
    /\ (Cardinality(Answered) = 1 /\ resp # NoResp) =>
          /\ resp.status = "OK"
          /\ open_sync # <<>>
          /\ open_sync[1].diff = resp.req.diff
    /\ Answered = Procs =>
          /\ resp.status = "FORBIDDEN"
          /\ open_sync # <<>>
          /\ open_sync = resp.before

\* both calls have answered, the second with FORBIDDEN
C2_Witness ==
    /\ Answered = Procs
    /\ resp.req.op = "begin"
    /\ resp.status = "FORBIDDEN"
    /\ open_sync # <<>>

\* C2 (as the spec has it): the call that loses fails with Conflict.
C2_LoserGetsConflict ==
    Answered = Procs => resp.status = "CONFLICT" /\ open_sync = resp.before

(***************************************************************************)
(* Properties of finalize_sync.                                            *)
(***************************************************************************)
\* finalize_sync holds the lock on a session whose token is not the one
\* supplied or one of whose files has no marker at <complete>/<file_id>
FinalizeMustReject ==
    /\ open_sync # <<>>
    /\ \E h \in Procs :
          /\ req[h].op = "finalize" /\ req[h].pc = "locked"
          /\ \/ open_sync[1].token # req[h].sync_token
             \/ \E p \in DOMAIN open_sync[1].files :
                   ~markers[open_sync[1].id][open_sync[1].files[p].file_id]

\* C8: a finalize whose token differs from the session's access token, or
\* that finds a file of the session without marker at <complete>/<file_id>,
\* answers BAD_REQUEST and leaves the session open, with the same id and
\* token.
C8_FinalizeRejected ==
    [][(FinalizeMustReject /\ resp'.req.op = "finalize") =>
          /\ resp'.status = "BAD_REQUEST"
          /\ open_sync' = open_sync]_vars

\* a finalize with the right token was refused for a missing marker
C8_Witness ==
    /\ resp.req.op = "finalize"
    /\ resp.status = "BAD_REQUEST"
    /\ resp.before # <<>>
    /\ resp.before[1].token = resp.req.sync_token
    /\ open_sync = resp.before

\* the regular file a transfer of metadata m leaves in the content tree
Promoted(m) == FileEntry(m.size, m.last_modif_date_s, m.last_modif_date_ns)

FinalizedOk == resp.req.op = "finalize" /\ resp.status = "OK"

SeqRange(q) == {q[i] : i \in 1..Len(q)}

\* the paths begin_sync removes for an apply plan, and the locations that
\* finalize_sync and the transfers create again for it
DeletePaths(ops) == SeqRange(ops.delete_files) \cup SeqRange(ops.delete_empty_dirs)
Recreated(ops) ==
    {Resolve(q) : q \in SeqRange(ops.create_dirs)}
    \cup {Resolve(e[1]) : e \in SeqRange(ops.send_files)}

\* C4 (as the code has it): whenever finalize answers OK, every path of
\* delete_files and of delete_empty_dirs that the apply plan does not create
\* again (as a directory of create_dirs or a file of send_files) is absent
\* from the content tree.
C4_DeletedAbsentUnlessRecreated ==
    FinalizedOk =>
        LET ops == resp.before[1].diff_ops IN
        \A p \in DeletePaths(ops) :
            Resolve(p) \notin Recreated(ops) => fs[Resolve(p)] = NoEntry

\* a finalize answered OK for a plan that deletes a path it does not create
\* again
C4_Witness ==
    /\ FinalizedOk
    /\ LET ops == resp.before[1].diff_ops IN
       \E p \in DeletePaths(ops) :
           Resolve(p) \notin Recreated(ops) /\ fs[Resolve(p)] = NoEntry

\* C4 (as the spec has it): whenever finalize answers OK, every path of
\* delete_files and of delete_empty_dirs is absent from the content tree,
\* the paths of type_changed entries included.
C4_EveryDeletedAbsent ==
    FinalizedOk =>
        \A p \in DeletePaths(resp.before[1].diff_ops) : fs[Resolve(p)] = NoEntry

(***************************************************************************)
(* Properties of resume_open_sync.                                         *)
(***************************************************************************)
\* the files of session os that have no marker at <complete>/<file_id>
Unmarked(os) == {k \in DOMAIN os.files : ~markers[os.id][os.files[k].file_id]}

AnsweredTransfer == resp.req.op = "send_file" /\ resp.req.pc # "check"

\* C6: a transfer with the session's token, a path of the files map and a
\* body of the expected length answers OK; the body is then at
\* <content>/<relative_path> with the expected mtime and a marker is at
\* <complete>/<file_id> of the session.
C6_ValidTransferOk ==
    (AnsweredTransfer /\ resp.req.len = resp.req.metadata.size) =>
        /\ resp.status = "OK"
        /\ fs[Resolve(resp.req.path)] = Promoted(resp.req.metadata)
        /\ resp.before # <<>>
        /\ markers[resp.before[1].id][resp.req.file_id]

\* C7: the step that answers a transfer whose body length differs from the
\* expected size answers BAD_REQUEST, creates no marker and leaves the
\* content tree as it was.
C7_WrongLengthBadRequest ==
    [][\A h \in Procs :
          (/\ req[h].op = "send_file" /\ req[h].pc # "check"
           /\ req[h].len # req[h].metadata.size
           /\ req'[h].pc = "idle")
          => (resp'.status = "BAD_REQUEST" /\ markers' = markers /\ fs' = fs)]_vars

(***************************************************************************)
(* Properties of the paths begin_sync accepts.                             *)
(***************************************************************************)
\* a path with a "." or ".." component or a leading "/"
EscapingPath(p) == \E i \in 1..Len(p) : p[i] \in {".", "..", "/"}

HasEscapingPath(diff) ==
    \E e \in SeqRange(diff.added) \cup SeqRange(diff.modified)
             \cup SeqRange(diff.type_changed) \cup SeqRange(diff.deleted) :
        EscapingPath(e[1])

\* the locations outside the content tree are as they were at the start
OutsideUntouched ==
    \A l \in Locs : ~InsideContent(l) => fs[l] = FileEntry(1, 1, 0)

\* C9: a begin whose diff holds, in any bucket, a path with a "." or ".."
\* component or a leading "/" is refused: it installs no session, and
\* nothing outside the content tree is created or deleted.
C9_EscapingDiffRefused ==
    (resp.req.op = "begin" /\ HasEscapingPath(resp.req.diff)) =>
        /\ resp.status # "OK"
        /\ open_sync = resp.before
        /\ OutsideUntouched

\* not absolute, not empty, without "." or ".." component
SafeRelativePath(p) == p # <<>> /\ ~EscapingPath(p)

\* C10: every key of the files map of the installed session is a safe
\* relative path.
C10_FilesPathsSafe ==
    open_sync # <<>> => \A p \in DOMAIN open_sync[1].files : SafeRelativePath(p)

(***************************************************************************)
(* Snapshots and Diff::build (harmony-differ), as the client uses them.    *)
(***************************************************************************)
ContentPaths == {<<"a.txt">>, <<"sub">>, <<"sub", "b.txt">>}

\* the orders in which WalkDir may yield the entries: a directory before its
\* content, siblings in any order
WalkOrders ==
    {<<<<"a.txt">>, <<"sub">>, <<"sub", "b.txt">>>>,
     <<<<"sub">>, <<"sub", "b.txt">>, <<"a.txt">>>>}

snapshot_item(path, e) ==
    [relative_path |-> path,
     metadata |-> IF e.kind = "dir" THEN Directory
                  ELSE File(FileMeta(e.size, e.mtime_s, e.mtime_ns))]

\* make_snapshot of the tree f, walked in the given order
make_snapshot(f, order) ==
    LET present == SelectSeq(order, LAMBDA q : f[q].kind # "none") IN
    [i \in 1..Len(present) |-> snapshot_item(present[i], f[present[i]])]

\* the HashMap from relative_path to the item's metadata; a later item with
\* the same path replaces an earlier one
build_item_names_hashmap(snapshot) ==
    [q \in {snapshot[i].relative_path : i \in 1..Len(snapshot)} |->
        LET last == CHOOSE i \in 1..Len(snapshot) :
                        /\ snapshot[i].relative_path = q
                        /\ \A j \in (i + 1)..Len(snapshot) : snapshot[j].relative_path # q
        IN snapshot[last].metadata]

\* insertion of x after the items of a sequence sorted ascending by path
\* whose path is not greater than x's
RECURSIVE InsertAsc(_, _)
InsertAsc(x, v) ==
    IF v = <<>> THEN <<x>>
    ELSE IF PathLess(x.path, Head(v).path) THEN <<x>> \o v
         ELSE <<Head(v)>> \o InsertAsc(x, Tail(v))

\* diff.sort_by(|a, b| a.path.cmp(&b.path)): a stable sort
RECURSIVE SortByPath(_)
SortByPath(v) ==
    IF v = <<>> THEN <<>>
    ELSE InsertAsc(v[Len(v)], SortByPath(SubSeq(v, 1, Len(v) - 1)))

\* a comparison that records the backed-up metadata on both sides
ComparedPrevOnly(path, source, backed_up) ==
    IF source.kind # backed_up.kind
    THEN Item("TypeChanged", path, backed_up, backed_up)
    ELSE Item("Modified", path, backed_up, backed_up)

\* a comparison of files that leaves the nanoseconds out
DiffersIgnoringNanos(source, backed_up) ==
    /\ ~(source.kind = "Directory" /\ backed_up.kind = "Directory")
    /\ [source EXCEPT !.last_modif_date_ns = 0] # [backed_up EXCEPT !.last_modif_date_ns = 0]

\* the item Diff::build makes of a path present on both sides
Compared(path, source, backed_up) ==
    IF source.kind # backed_up.kind
    THEN Item("TypeChanged", path, backed_up, source)
    ELSE Item("Modified", path, backed_up, source)

Differs(source, backed_up) ==
    ~(source.kind = "Directory" /\ backed_up.kind = "Directory") /\ source # backed_up

\* a build that records every local path as added, without looking for it
\* in the remote snapshot
DiffBuildAddsAll(local, remote) ==
    LET source_items == build_item_names_hashmap(local)
        backed_up_items == build_item_names_hashmap(remote)
        added == SelectSeq(PathsInByteOrder, LAMBDA q : q \in DOMAIN source_items)
        deleted == SelectSeq(PathsInByteOrder,
                             LAMBDA q : q \in DOMAIN backed_up_items \ DOMAIN source_items)
        both == SelectSeq(local,
                          LAMBDA it : /\ it.relative_path \in DOMAIN backed_up_items
                                      /\ Differs(it.metadata, backed_up_items[it.relative_path]))
    IN DiffNew(SortByPath(
           [i \in 1..Len(added) |-> Item("Added", added[i], Directory, source_items[added[i]])]
           \o [i \in 1..Len(deleted) |->
                  Item("Deleted", deleted[i], backed_up_items[deleted[i]],
                       backed_up_items[deleted[i]])]
           \o [i \in 1..Len(both) |->
                  Compared(both[i].relative_path, both[i].metadata,
                           backed_up_items[both[i].relative_path])]))

DiffBuild(local, remote) ==
    LET source_items == build_item_names_hashmap(local)
        backed_up_items == build_item_names_hashmap(remote)
        added == SelectSeq(PathsInByteOrder,
                           LAMBDA q : q \in DOMAIN source_items \ DOMAIN backed_up_items)
        deleted == SelectSeq(PathsInByteOrder,
                             LAMBDA q : q \in DOMAIN backed_up_items \ DOMAIN source_items)
        both == SelectSeq(local,
                          LAMBDA it : /\ it.relative_path \in DOMAIN backed_up_items
                                      /\ Differs(it.metadata, backed_up_items[it.relative_path]))
    IN DiffNew(SortByPath(
           [i \in 1..Len(added) |-> Item("Added", added[i], Directory, source_items[added[i]])]
           \o [i \in 1..Len(deleted) |->
                  Item("Deleted", deleted[i], backed_up_items[deleted[i]],
                       backed_up_items[deleted[i]])]
           \o [i \in 1..Len(both) |->
                  Compared(both[i].relative_path, both[i].metadata,
                           backed_up_items[both[i].relative_path])]))

NanosPerSec == 1000000000

\* Duration::from_secs(s) + Duration::from_nanos(ns), as <<seconds, nanoseconds>>
DurationOf(s, ns) == <<s + (ns \div NanosPerSec), ns % NanosPerSec>>

DurationLeq(a, b) == a[1] < b[1] \/ (a[1] = b[1] /\ a[2] <= b[2])

\* a.checked_sub(b): None when b is greater than a
checked_sub(a, b) ==
    IF ~DurationLeq(b, a) THEN <<>>
    ELSE IF a[2] >= b[2] THEN <<<<a[1] - b[1], a[2] - b[2]>>>>
    ELSE <<<<a[1] - b[1] - 1, a[2] + NanosPerSec - b[2]>>>>

\* the filter of apply_time_granularity: the modified entries it keeps
KeptByGranularity(prev, new, time_granularity) ==
    LET new_modified_at == DurationOf(new.last_modif_date_s, new.last_modif_date_ns)
        prev_modified_at == DurationOf(prev.last_modif_date_s, prev.last_modif_date_ns)
        diff_abs == IF checked_sub(new_modified_at, prev_modified_at) # <<>>
                    THEN checked_sub(new_modified_at, prev_modified_at)[1]
                    ELSE checked_sub(prev_modified_at, new_modified_at)[1]
    IN new.size # prev.size \/ DurationLeq(diff_abs, time_granularity)

apply_time_granularity(diff, time_granularity) ==
    [diff EXCEPT !.modified =
        SelectSeq(@, LAMBDA e : KeptByGranularity(e[2].prev, e[2].new, time_granularity))]

(***************************************************************************)
(* The client (harmony-client inner_main and open_sync) against the        *)
(* server, from a slot with no open session. The user confirms the sync.   *)
(***************************************************************************)
\* the trees the client may hold: the shapes of the server's trees, the files
\* as old as the server's or newer
ClientTrees == {Tree(sh, e) : sh \in Shapes, e \in {FileEntry(1, 1, 0), FileEntry(1, 2, 0)}}

\* is_sync_open
is_sync_open(cur) == cur # <<>>

\* the snapshot handler: refused while a session is open
SnapshotEffect(cur, f, order) ==
    IF cur # <<>> THEN [status |-> "FORBIDDEN", snapshot |-> <<>>]
    ELSE [status |-> "OK", snapshot |-> make_snapshot(f, order)]

\* the fields of the client's struct SyncInfos (deny_unknown_fields)
ClientSyncInfosFields == {"sync_token", "transfer_file_ids", "transfer_size"}

\* serde_json::from_str::<SyncInfos> of the serialised response: every
\* field of the struct must be there, and no other
ParsesAsSyncInfos(json) == DOMAIN json = ClientSyncInfosFields

InitClient ==
    /\ InitServer
    /\ \E t \in ClientTrees :
          client = [pc |-> "is_open", tree |-> t, local |-> <<>>, remote |-> <<>>,
                    diff |-> EmptyDiff, ok |-> FALSE]

ClientStep(c) ==
    /\ client' = c
    /\ resp' = NoResp
    /\ UNCHANGED <<fs, dirs, pending, markers, open_sync, wlock, req, nreq, nsend>>

\* GET /sync/is-open; an open session leads to the resume of lines 124-147
ClientIsOpen ==
    /\ client.pc = "is_open"
    /\ wlock = {}
    /\ ClientStep([client EXCEPT !.pc = IF is_sync_open(open_sync) THEN "resume" ELSE "snapshot"])

\* try_join!(make_snapshot, POST /snapshot)
ClientSnapshots ==
    /\ client.pc = "snapshot"
    /\ wlock = {}
    /\ \E lo \in WalkOrders, ro \in WalkOrders :
          LET r == SnapshotEffect(open_sync, fs, ro) IN
          ClientStep([client EXCEPT !.pc = IF r.status = "OK" THEN "diff" ELSE "failed",
                                    !.local = make_snapshot(client.tree, lo),
                                    !.remote = r.snapshot])

\* (a client that sends begin whatever the diff)
ClientDiffAlwaysBegins ==
    /\ client.pc = "diff"
    /\ ClientStep([client EXCEPT !.pc = "begin",
                                 !.diff = apply_time_granularity(
                                              DiffBuild(client.local, client.remote),
                                              DurationOf(1, 0))])

\* Diff::build(..).apply_time_granularity(Duration::from_secs(1)); an empty
\* diff ends the run with "Nothing to do!"
ClientDiff ==
    /\ client.pc = "diff"
    /\ LET diff == apply_time_granularity(DiffBuild(client.local, client.remote),
                                          DurationOf(1, 0))
       IN IF diff = EmptyDiff
          THEN ClientStep([client EXCEPT !.pc = "done", !.ok = TRUE])
          ELSE ClientStep([client EXCEPT !.pc = "begin", !.diff = diff])

\* POST /sync/begin with the diff
ClientBegin ==
    /\ client.pc = "begin"
    /\ \E h \in Procs :
          /\ Free(h)
          /\ req' = [req EXCEPT ![h] = [IdleReq EXCEPT !.op = "begin", !.pc = "lock",
                                                       !.diff = client.diff]]
    /\ client' = [client EXCEPT !.pc = "wait"]
    /\ resp' = NoResp
    /\ nreq' = nreq + 1
    /\ UNCHANGED <<fs, dirs, pending, markers, open_sync, wlock, nsend>>

\* request_url::<SyncInfos>: an error status or a response that does not
\* parse ends inner_main with an error; the transfers and the finalize of
\* lines 219-339 need the parsed SyncInfos
ClientParse ==
    /\ client.pc = "wait"
    /\ resp.req.op = "begin"
    /\ ClientStep([client EXCEPT !.pc = IF resp.status = "OK" /\ ParsesAsSyncInfos(resp.infos)
                                        THEN "transfer" ELSE "failed"])

NextClient ==
    \/ ClientIsOpen
    \/ ClientSnapshots
    \/ ClientDiff
    \/ ClientBegin
    \/ \E h \in Procs : AcquireWrite(h) \/ BeginSync(h)
    \/ ClientParse

SpecClient == InitClient /\ [][NextClient]_vars

\* the content tree equals the client's tree
ContentIsClientTree ==
    \A l \in Locs : (InsideContent(l) /\ l # <<>>) => fs[l] = client.tree[l]

\* C1: from a slot with no open session, the client's sync completes
\* successfully, with the content tree equal to the client's tree: a run of
\* the client that has ended has ended so.
C1_SyncCompletes ==
    client.pc \in {"done", "failed"} =>
        (client.pc = "done" /\ client.ok /\ ContentIsClientTree)

(***************************************************************************)
(* Properties of begin_sync: what a failed begin leaves, and the order of  *)
(* its deletions.                                                          *)
(***************************************************************************)
\* the step answers a begin that found the slot without session
BeginAnswered == resp'.req.op = "begin" /\ resp'.req.pc = "locked" /\ open_sync = <<>>

\* C11: a begin on a slot without session that fails (path validation,
\* creation of a staging directory, a deletion) answers an error and leaves
\* open_sync none; a begin that finds open_sync none is never refused as
\* already open.
C11_FailedBeginInstallsNothing ==
    [][BeginAnswered =>
          /\ resp'.status # "FORBIDDEN"
          /\ resp'.status # "OK" => open_sync' = <<>>
          /\ resp'.status = "OK" => open_sync' # <<>>]_vars

\* a begin succeeded although the staging directories of an earlier, failed
\* begin are still there: that begin had left open_sync none
C11_Witness ==
    /\ resp.req.op = "begin" /\ resp.status = "OK"
    /\ open_sync # <<>>
    /\ \E x \in Ids : x # open_sync[1].id /\ dirs[x].complete

\* every directory of paths is empty when the loop over delete_empty_dirs
\* reaches it, starting from tree f
RECURSIVE EmptyWhenRemoved(_, _)
EmptyWhenRemoved(f, paths) ==
    \/ paths = <<>>
    \/ /\ f[Resolve(Head(paths))] = DirEntry
       /\ ~HasChild(f, Resolve(Head(paths)))
       /\ EmptyWhenRemoved([f EXCEPT ![Resolve(Head(paths))] = NoEntry], Tail(paths))

\* C12: when begin answers OK, the tree in which every entry of delete_files
\* has been removed still holds every directory of delete_empty_dirs; from
\* that tree each directory is empty when its turn comes; and in the tree
\* the step leaves, with the session installed, every path of both lists is
\* absent.
C12_FilesThenEmptyDirs ==
    [][(BeginAnswered /\ resp'.status = "OK") =>
          LET ops == open_sync'[1].diff_ops
              mid == [l \in Locs |->
                         IF \E p \in SeqRange(ops.delete_files) : Resolve(p) = l
                         THEN NoEntry ELSE fs[l]]
          IN /\ \A p \in SeqRange(ops.delete_files) : fs[Resolve(p)].kind = "file"
             /\ EmptyWhenRemoved(mid, ops.delete_empty_dirs)
             /\ \A p \in DeletePaths(ops) : fs'[Resolve(p)] = NoEntry]_vars

\* a begin answered OK for a plan that removes a file and then the
\* directory that held it
C12_Witness ==
    /\ resp.req.op = "begin" /\ resp.status = "OK"
    /\ open_sync # <<>>
    /\ open_sync[1].diff_ops.delete_files = << <<"sub", "b.txt">> >>
    /\ open_sync[1].diff_ops.delete_empty_dirs = << <<"sub">> >>
    /\ fs[<<"sub">>] = NoEntry

(***************************************************************************)
(* Requests that name a slot the server does not have, and the server      *)
(* under legal and illegal requests of every kind.                         *)
(***************************************************************************)
MaxSlotRequests == 3

\* state.slots.get(&slot_name) finds nothing: every session handler answers
\* NOT_FOUND before it takes a lock; resp.req.pc = "slot" marks the answer
UnknownSlot(h, max) ==
    /\ Free(h)
    /\ nreq < max
    /\ \E op \in {"begin", "resume", "finalize", "send_file"} :
          resp' = [req |-> [IdleReq EXCEPT !.op = op, !.pc = "slot"],
                   status |-> "NOT_FOUND", infos |-> NoInfos, before |-> open_sync]
    /\ nreq' = nreq + 1
    /\ UNCHANGED <<fs, dirs, pending, markers, open_sync, wlock, req, nsend, client>>

\* the diffs of the sessions of SpecSlot
SlotDiffs ==
    {EmptyDiff, DiffNew(<<Item("Modified", <<"a.txt">>, File(OldMeta), File(NewMeta1))>>)}

NextSlot ==
    \E h \in Procs :
        \/ ReceiveBegin(h, SlotDiffs, MaxSlotRequests)
        \/ ReceiveResume(h, MaxSlotRequests)
        \/ ReceiveFinalize(h, MaxSlotRequests)
        \/ UnknownSlot(h, MaxSlotRequests)
        \/ BeginSync(h)
        \/ ResumeOpenSync(h)
        \/ FinalizeSync(h)
        \/ SendFileCheck(h)
        \/ SendFileWrite(h)
        \/ SendFileVerify(h)
        \/ SendFileRename(h)
        \/ SendFileMarker(h)

SpecSlot == Init /\ [][NextSlot]_vars

\* the step answers an illegal transition: a begin that found a session, a
\* resume or a finalize that found none, a transfer refused at its lookup
\* for want of a session, or any request for an unknown slot
IllegalAnswered ==
    /\ resp' # NoResp
    /\ \/ resp'.req.pc = "slot"
       \/ resp'.req.op = "begin" /\ resp'.req.pc = "locked" /\ open_sync # <<>>
       \/ resp'.req.op \in {"resume", "finalize"} /\ resp'.req.pc = "locked" /\ open_sync = <<>>
       \/ resp'.req.op = "send_file" /\ resp'.req.pc = "check" /\ open_sync = <<>>

\* the slot's session, its staging directories and its content tree
SlotState == <<open_sync, dirs, pending, markers, fs>>

\* the error of each illegal transition in the code
IllegalStatus(r) ==
    IF r.pc = "slot" THEN "NOT_FOUND"
    ELSE IF r.op = "begin" THEN "FORBIDDEN"
    ELSE IF r.op = "resume" THEN "CONFLICT"
    ELSE "NOT_FOUND"

\* C13 (as the code has it): an illegal transition answers an error and
\* leaves the slot's open_sync, staging directories and content tree as
\* they were; the error is NOT_FOUND for an unknown slot and for a transfer
\* or a finalize without session, CONFLICT for a resume without session and
\* FORBIDDEN for a begin on a slot that has a session.
C13_IllegalLeavesState ==
    [][IllegalAnswered =>
          /\ resp'.status = IllegalStatus(resp'.req)
          /\ SlotState' = SlotState]_vars

\* a begin was refused on a slot whose session has a marker and a file in
\* the content tree written by a transfer
C13_Witness ==
    /\ resp.req.op = "begin" /\ resp.req.pc = "locked"
    /\ resp.status = "FORBIDDEN"
    /\ open_sync # <<>>
    /\ \E f \in Ids : markers[open_sync[1].id][f]

\* C13 (as the spec has it): every illegal transition answers Conflict or
\* NotFound and leaves the state as it was.
C13_ConflictOrNotFound ==
    [][IllegalAnswered =>
          /\ resp'.status \in {"CONFLICT", "NOT_FOUND"}
          /\ SlotState' = SlotState]_vars

ResumeAnsweredOk ==
    resp'.req.op = "resume" /\ resp'.req.pc = "locked" /\ resp'.status = "OK"

\* C15: a resume that answers OK leaves the session's id, diff, apply plan
\* and files map (every file_id included) as they were and sets the access
\* token to the one it returns in the SyncInfos; the id is therefore the
\* same after any number of resumes.
C15_ResumeKeepsSession ==
    [][ResumeAnsweredOk =>
          /\ open_sync # <<>>
          /\ open_sync' = <<[open_sync[1] EXCEPT !.token = resp'.infos.sync_token]>>]_vars

\* a resume gave a session that has a file a token that differs from the
\* one it had
C15_Witness ==
    /\ resp.req.op = "resume" /\ resp.status = "OK"
    /\ open_sync # <<>>
    /\ DOMAIN open_sync[1].files # {}
    /\ open_sync[1].token = resp.infos.sync_token
    /\ open_sync[1].token # resp.before[1].token
    /\ open_sync[1].id = resp.before[1].id

(***************************************************************************)
(* Transfers that send_file refuses at its lookup.                         *)
(***************************************************************************)
\* request r carries the token of the open session and a key of its files
AcceptableTransfer(r) ==
    /\ open_sync # <<>>
    /\ r.sync_id = open_sync[1].token
    /\ r.path \in DOMAIN open_sync[1].files

\* C16: a transfer whose token is not the session's current access token or
\* whose path is not a key of the session's files map is never taken up: it
\* is answered BAD_REQUEST by the step that receives it, and that step
\* leaves the pending directories, the completion directories and the
\* content tree as they were.
C16_TransferRefused ==
    [][/\ \A h \in Procs :
             (req[h].pc = "idle" /\ req'[h].op = "send_file") => AcceptableTransfer(req'[h])
       /\ (/\ resp'.req.op = "send_file" /\ resp'.req.pc = "check"
           /\ open_sync # <<>>)
          => /\ ~AcceptableTransfer(resp'.req)
             /\ resp'.status = "BAD_REQUEST"
             /\ <<pending, markers, dirs, fs>>' = <<pending, markers, dirs, fs>>]_vars

\* a transfer with the session's token and an unknown path was refused
\* while a temporary file of the session was in the pending directory
C16_Witness ==
    /\ resp.req.op = "send_file" /\ resp.req.pc = "check"
    /\ resp.status = "BAD_REQUEST"
    /\ open_sync # <<>>
    /\ resp.req.sync_id = open_sync[1].token
    /\ resp.req.path \notin DOMAIN open_sync[1].files
    /\ \E x \in Ids, f \in Ids : pending[x][f].kind = "file"


(***************************************************************************)
(* The differ as pure functions: Diff::build on two snapshots in both      *)
(* roles, apply_time_granularity on the diff built, DiffApplyOps::new on   *)
(* the diff filtered or on a diff as the server receives it.               *)
(***************************************************************************)
\* the entries of the files snapshotted: a file, the same file 0.3 s later,
\* 2 s later, and with another size
DiffEntries ==
    {FileEntry(1, 1, 0), FileEntry(1, 1, 300000000), FileEntry(1, 3, 0), FileEntry(2, 1, 0)}

\* the content trees snapshotted: sub/b.txt exists only in a directory sub
DiffTrees ==
    {f \in [ContentPaths -> {NoEntry, DirEntry} \cup DiffEntries] :
        f[<<"sub">>].kind # "dir" => f[<<"sub", "b.txt">>] = NoEntry}

\* Snapshot.items of make_snapshot on these trees: every path at most once
Snapshots == {make_snapshot(f, order) : f \in DiffTrees, order \in WalkOrders}

\* the granularities applied: none, and the client's Duration::from_secs(1)
Granularities == {DurationOf(0, 0), DurationOf(1, 0)}

NoOps == [create_dirs |-> <<>>, send_files |-> <<>>, delete_files |-> <<>>,
          delete_empty_dirs |-> <<>>]

DifferAt(pc, src, local, remote) ==
    [pc |-> pc, src |-> src, local |-> local, remote |-> remote, diff |-> EmptyDiff,
     swapped |-> EmptyDiff, g |-> DurationOf(0, 0), filtered |-> EmptyDiff,
     ops |-> NoOps, again |-> NoOps]

\* two snapshots to compare, or a diff deserialised from a begin request
InitDiff ==
    /\ InitServer
    /\ \/ \E local \in Snapshots, remote \in Snapshots :
             client = DifferAt("given", "snapshots", local, remote)
       \/ \E d \in AnyDiffs :
             client = [DifferAt("filtered", "request", <<>>, <<>>) EXCEPT !.filtered = d]

\* Diff::build(local, remote), and with the roles exchanged
DiffBuildStep ==
    /\ client.pc = "given"
    /\ ClientStep([client EXCEPT !.pc = "built",
                                 !.diff = DiffBuild(client.local, client.remote),
                                 !.swapped = DiffBuild(client.remote, client.local)])

\* diff.apply_time_granularity(time_granularity)
GranularityStep ==
    /\ client.pc = "built"
    /\ \E time_granularity \in Granularities :
          ClientStep([client EXCEPT !.pc = "filtered",
                                    !.g = time_granularity,
                                    !.filtered = apply_time_granularity(client.diff,
                                                                        time_granularity)])

\* diff.ops(), called twice on the same diff
OpsStep ==
    /\ client.pc = "filtered"
    /\ ClientStep([client EXCEPT !.pc = "planned",
                                 !.ops = DiffApplyOps(client.filtered),
                                 !.again = DiffApplyOps(client.filtered)])

NextDiff == DiffBuildStep \/ GranularityStep \/ OpsStep

SpecDiff == InitDiff /\ [][NextDiff]_vars

\* the entries of a bucket of a diff at path p
At(bucket, p) == SelectSeq(bucket, LAMBDA e : e[1] = p)

\* the metadata a snapshot holds for path p
MetadataAt(snapshot, p) ==
    {snapshot[i].metadata : i \in {j \in 1..Len(snapshot) : snapshot[j].relative_path = p}}

FileFields(md) ==
    [size |-> md.size, last_modif_date_s |-> md.last_modif_date_s,
     last_modif_date_ns |-> md.last_modif_date_ns]

\* the entries that the classification of path p gives, l the metadata of
\* p in the local snapshot and r in the remote one (a set of at most one)
Classification(p, l, r) ==
    LET none == [added |-> <<>>, modified |-> <<>>, type_changed |-> <<>>, deleted |-> <<>>] IN
    IF l = {} /\ r = {} THEN none
    ELSE IF r = {} THEN [none EXCEPT !.added = <<<<p, [new |-> CHOOSE x \in l : TRUE]>>>>]
    ELSE IF l = {} THEN [none EXCEPT !.deleted = <<<<p, [prev |-> CHOOSE x \in r : TRUE]>>>>]
    ELSE LET new == CHOOSE x \in l : TRUE
             prev == CHOOSE x \in r : TRUE
         IN IF new.kind = "Directory" /\ prev.kind = "Directory" THEN none
            ELSE IF new.kind # prev.kind
                 THEN [none EXCEPT !.type_changed = <<<<p, [prev |-> prev, new |-> new]>>>>]
            ELSE IF /\ new.size = prev.size
                    /\ new.last_modif_date_s = prev.last_modif_date_s
                    /\ new.last_modif_date_ns = prev.last_modif_date_ns
                 THEN none
            ELSE [none EXCEPT !.modified =
                      <<<<p, [prev |-> FileFields(prev), new |-> FileFields(new)]>>>>]

DiffWasBuilt == client.pc \in {"built", "filtered", "planned"} /\ client.src = "snapshots"

\* C17: for two snapshots with unique paths, the diff built holds for every
\* path exactly the entries of its classification: added with the local
\* metadata when only local has it, deleted with the remote metadata when
\* only remote has it, nothing for a directory on both sides, type_changed
\* with prev = remote and new = local for a directory against a file,
\* nothing for two files equal in size, seconds and nanoseconds, and
\* modified with prev = remote and new = local for two files that differ.
C17_BuildClassifies ==
    DiffWasBuilt =>
        \A p \in RawPaths :
            LET c == Classification(p, MetadataAt(client.local, p),
                                    MetadataAt(client.remote, p))
            IN /\ At(client.diff.added, p) = c.added
               /\ At(client.diff.modified, p) = c.modified
               /\ At(client.diff.type_changed, p) = c.type_changed
               /\ At(client.diff.deleted, p) = c.deleted

\* a diff built with an added, a modified and a type_changed entry, the
\* modified files differing by their nanoseconds only
C17_Witness ==
    /\ client.pc = "built"
    /\ client.diff.added # <<>>
    /\ client.diff.type_changed # <<>>
    /\ \E i \in 1..Len(client.diff.modified) :
          LET m == client.diff.modified[i][2] IN
          /\ m.prev.size = m.new.size
          /\ m.prev.last_modif_date_s = m.new.last_modif_date_s
          /\ m.prev.last_modif_date_ns # m.new.last_modif_date_ns


\* the entries of a modified or type_changed bucket with prev and new exchanged
Exchanged(bucket) ==
    [i \in 1..Len(bucket) |->
        <<bucket[i][1], [prev |-> bucket[i][2].new, new |-> bucket[i][2].prev]>>]

\* the paths and metadata of an added bucket, as entries of a deleted bucket
AsDeleted(bucket) ==
    [i \in 1..Len(bucket) |-> <<bucket[i][1], [prev |-> bucket[i][2].new]>>]

\* C18: exchanging the roles of two snapshots exchanges the diff: the added
\* entries of Diff(A, B) are the deleted entries of Diff(B, A), path by path
\* with the same metadata, and conversely; the modified entries of
\* Diff(B, A) are those of Diff(A, B) with prev and new exchanged, and so
\* are the type_changed entries.
C18_RolesSwapDiff ==
    DiffWasBuilt =>
        /\ AsDeleted(client.diff.added) = client.swapped.deleted
        /\ AsDeleted(client.swapped.added) = client.diff.deleted
        /\ client.swapped.modified = Exchanged(client.diff.modified)
        /\ client.swapped.type_changed = Exchanged(client.diff.type_changed)

\* both diffs were built from snapshots walked in different orders, with a
\* path on one side only, a file modified and a directory against a file
C18_Witness ==
    /\ client.pc = "built"
    /\ Len(client.local) = 3 /\ Len(client.remote) = 2
    /\ client.local[1].relative_path # client.remote[1].relative_path
    /\ client.diff.added # <<>>
    /\ client.swapped.deleted # <<>>
    /\ client.swapped.modified # <<>>
    /\ client.swapped.type_changed # <<>>


\* the sum of two durations given as <<seconds, nanoseconds>>
DurationSum(a, b) ==
    <<a[1] + b[1] + ((a[2] + b[2]) \div NanosPerSec), (a[2] + b[2]) % NanosPerSec>>

\* the mtimes of prev and new are at most g apart
WithinGranularity(e, g) ==
    LET prev == <<e[2].prev.last_modif_date_s, e[2].prev.last_modif_date_ns>>
        new == <<e[2].new.last_modif_date_s, e[2].new.last_modif_date_ns>>
        leq(a, b) == a[1] < b[1] \/ (a[1] = b[1] /\ a[2] <= b[2])
    IN leq(new, DurationSum(prev, g)) /\ leq(prev, DurationSum(new, g))

DiffWasFiltered == client.pc \in {"filtered", "planned"} /\ client.src = "snapshots"

\* C19: apply_time_granularity(G) removes from modified exactly the entries
\* whose prev and new sizes are equal and whose mtimes are at most G apart,
\* keeps every other modified entry in order, and leaves the other buckets
\* as they were; with G = 1 s a file whose mtime alone moved by 0.3 s is not
\* among the entries to transfer.
C19_GranularityDrops ==
    DiffWasFiltered =>
        /\ client.filtered.modified =
              SelectSeq(client.diff.modified,
                        LAMBDA e : ~(e[2].prev.size = e[2].new.size
                                     /\ WithinGranularity(e, client.g)))
        /\ client.filtered.added = client.diff.added
        /\ client.filtered.type_changed = client.diff.type_changed
        /\ client.filtered.deleted = client.diff.deleted


\* s and t hold the same elements, each as many times
SameEntries(s, t) ==
    /\ Len(s) = Len(t)
    /\ \A i \in 1..Len(s) :
          Cardinality({j \in 1..Len(s) : s[j] = s[i]})
             = Cardinality({j \in 1..Len(t) : t[j] = s[i]})

PathsOf(bucket) == [i \in 1..Len(bucket) |-> bucket[i][1]]

\* the (path, file metadata) of the new side of the entries of a bucket
NewFilesOf(bucket) ==
    LET files == SelectSeq(bucket, LAMBDA e : e[2].new.kind = "File")
    IN [i \in 1..Len(files) |-> <<files[i][1], FileFields(files[i][2].new)>>]

PlanDerived == client.pc = "planned"

\* C20: the plan derived from a diff has as send_files the path and new
\* file metadata of every file of added, every entry of modified and every
\* type_changed entry whose new side is a file; as delete_files the paths
\* of the deleted and type_changed entries whose prev side is a file; as
\* delete_empty_dirs the paths of those whose prev side is a directory; as
\* create_dirs the paths of the added and type_changed entries whose new
\* side is a directory; and a second derivation from the same diff gives
\* the same plan.
C20_PlanContents ==
    PlanDerived =>
        LET d == client.filtered
            gone == d.deleted \o d.type_changed
            made == d.added \o d.type_changed
        IN /\ SameEntries(client.ops.send_files,
                          NewFilesOf(d.added)
                          \o [i \in 1..Len(d.modified) |-> <<d.modified[i][1], d.modified[i][2].new>>]
                          \o NewFilesOf(d.type_changed))
           /\ SameEntries(client.ops.delete_files,
                          PathsOf(SelectSeq(gone, LAMBDA e : e[2].prev.kind = "File")))
           /\ SameEntries(client.ops.delete_empty_dirs,
                          PathsOf(SelectSeq(gone, LAMBDA e : e[2].prev.kind = "Directory")))
           /\ SameEntries(client.ops.create_dirs,
                          PathsOf(SelectSeq(made, LAMBDA e : e[2].new.kind = "Directory")))
           /\ client.again = client.ops

\* a plan with a directory to create, a file to send, a directory to
\* remove and two files to delete, one of them of a type_changed entry
C20_Witness ==
    /\ client.pc = "planned"
    /\ client.filtered.type_changed # <<>>
    /\ client.ops.create_dirs # <<>>
    /\ client.ops.send_files # <<>>
    /\ client.ops.delete_empty_dirs # <<>>
    /\ Len(client.ops.delete_files) = 2


\* path a is a proper ancestor of path d
IsAncestor(a, d) == Len(a) < Len(d) /\ SubSeq(d, 1, Len(a)) = a

\* C21: in every plan create_dirs is sorted ascending by path, so that a
\* directory of the list comes after each of its ancestors in the list.
C21_CreateDirsAscending ==
    PlanDerived =>
        LET l == client.ops.create_dirs IN
        \A i \in 1..Len(l), j \in 1..Len(l) :
            i < j => (~PathLess(l[j], l[i]) /\ ~IsAncestor(l[j], l[i]))

\* C22: in every plan delete_empty_dirs is sorted descending by path, and a
\* directory of the list comes before each of its ancestors in the list.
C22_DeleteDirsDescending ==
    PlanDerived =>
        LET l == client.ops.delete_empty_dirs IN
        \A i \in 1..Len(l), j \in 1..Len(l) :
            i < j => (~PathLess(l[i], l[j]) /\ ~IsAncestor(l[i], l[j]))

\* a plan that removes a directory, a directory inside it and a directory
\* that a file replaces
C22_Witness ==
    /\ client.pc = "planned"
    /\ client.filtered.type_changed # <<>>
    /\ Len(client.ops.delete_empty_dirs) = 3
    /\ \E i, j \in 1..3 : IsAncestor(client.ops.delete_empty_dirs[j],
                                     client.ops.delete_empty_dirs[i])


\* the last step was a begin that answered OK: open_sync is the session it
\* stored and resp.infos the SyncInfos it returned
BeginOk == resp.req.op = "begin" /\ resp.req.pc = "locked" /\ resp.status = "OK"

RECURSIVE SizeSum(_)
SizeSum(send_files) ==
    IF send_files = <<>> THEN 0 ELSE Head(send_files)[2].size + SizeSum(Tail(send_files))

FinalizeHoldsLock == \E h \in Procs : req[h].op = "finalize" /\ req[h].pc = "locked"

\* C24: from the step in which finalize takes the write lock to the step in
\* which it answers, no transfer takes a step: no send_file writes its
\* pending file, checks it, renames it or creates its marker.
C24_NoTransferDuringFinalize ==
    [][FinalizeHoldsLock =>
          \A g \in Procs : req[g].op = "send_file" => req'[g] = req[g]]_vars


(***************************************************************************)
(* The client after it holds a SyncInfos (main.rs 165-339): the transfer   *)
(* loop, the join of the tasks, the test of the errors and finalize. What  *)
(* File::open and the server answer are inputs of the client.              *)
(***************************************************************************)
\* max_parallel_transfers
MaxParallelTransfers == 2

\* the SyncInfos the client may hold: a token and the keys of
\* transfer_file_ids
TransferSets == SUBSET ContentPaths

InitTransfer ==
    /\ InitServer
    /\ \E t \in Ids, files \in TransferSets :
          client = [pc |-> "transfer", sync_token |-> t, files |-> files, todo |-> files,
                    tasks |-> {}, attempted |-> {}, errors |-> {}, finalize_sent |-> FALSE]

\* (a client that goes on to finalize whatever the errors)
AfterTransfersAlways(errors) == "finalize"

\* lines 303-311: bail! when errors is not empty
AfterTransfers(errors) == IF errors # {} THEN "failed" ELSE "finalize"

\* one turn of the loop over transfer_file_ids: File::open fails and the
\* error is reported, or the request is spawned once the pool has room
ClientOpenFile ==
    /\ client.pc = "transfer"
    /\ \E path \in client.todo :
          \/ ClientStep([client EXCEPT !.todo = @ \ {path},
                                       !.attempted = @ \cup {path},
                                       !.errors = @ \cup {path}])
          \/ /\ Cardinality(client.tasks) < MaxParallelTransfers
             /\ ClientStep([client EXCEPT !.todo = @ \ {path},
                                          !.attempted = @ \cup {path},
                                          !.tasks = @ \cup {path}])

\* a spawned task ends: request_url returned Ok, or an error that is reported
ClientTaskEnds ==
    /\ client.pc \in {"transfer", "join"}
    /\ \E path \in client.tasks, ok \in BOOLEAN :
          ClientStep([client EXCEPT !.tasks = @ \ {path},
                                    !.errors = IF ok THEN @ ELSE @ \cup {path}])

\* the loop is over: the remaining tasks are joined
ClientLoopEnds ==
    /\ client.pc = "transfer"
    /\ client.todo = {}
    /\ ClientStep([client EXCEPT !.pc = "join"])

\* every task is joined: the errors are looked at
ClientJoined ==
    /\ client.pc = "join"
    /\ client.tasks = {}
    /\ ClientStep([client EXCEPT !.pc = AfterTransfers(client.errors)])

\* POST /sync/finalize with the token; its result ends the run
ClientFinalize ==
    /\ client.pc = "finalize"
    /\ \E ok \in BOOLEAN :
          ClientStep([client EXCEPT !.pc = IF ok THEN "done" ELSE "failed",
                                    !.finalize_sent = TRUE])

NextTransfer ==
    ClientOpenFile \/ ClientTaskEnds \/ ClientLoopEnds \/ ClientJoined \/ ClientFinalize

SpecTransfer == InitTransfer /\ [][NextTransfer]_vars

\* C25: a transfer that fails is recorded and the remaining files are still
\* attempted: the errors never shrink and the loop ends only when every
\* file was attempted; once the tasks are joined with at least one error
\* recorded, the run has failed and finalize was not sent.
C25_FailedTransfersStopFinalize ==
    [][/\ client.errors \subseteq client'.errors
       /\ client'.pc # "transfer" => client'.attempted = client'.files
       /\ (client'.pc \notin {"transfer", "join"} /\ client'.errors # {})
             => (client'.pc = "failed" /\ ~client'.finalize_sent)]_vars

\* the run failed without a finalize after all three files were attempted,
\* one of them with an error
C25_Witness ==
    /\ client.pc = "failed"
    /\ client.attempted = ContentPaths
    /\ Cardinality(client.errors) = 1
    /\ ~client.finalize_sent


\* the client holds both snapshots and their diff, after the filter of one
\* second, has four empty buckets
NothingToDo ==
    /\ client.pc = "diff"
    /\ LET diff == apply_time_granularity(DiffBuild(client.local, client.remote),
                                          DurationOf(1, 0))
       IN /\ diff.added = <<>> /\ diff.modified = <<>>
          /\ diff.type_changed = <<>> /\ diff.deleted = <<>>

\* C26: when the filtered diff of the two snapshots is empty the client ends
\* its run in the next step without a request: no begin, transfer or
\* finalize is received, the session of the slot is as it was, and nothing
\* is sent after the run has ended.
C26_EmptyDiffSendsNothing ==
    [][/\ NothingToDo =>
             /\ client'.pc = "done"
             /\ <<open_sync, req, nreq, nsend, fs, dirs>>' = <<open_sync, req, nreq, nsend, fs, dirs>>
       /\ client.pc = "done" => vars' = vars]_vars

\* the run ended with "Nothing to do!" on a tree with files, no request made
C26_Witness ==
    /\ client.pc = "done"
    /\ Len(client.local) = 3
    /\ nreq = 0 /\ nsend = 0
    /\ open_sync = <<>>


FinalizeFails ==
    /\ resp'.req.op = "finalize" /\ resp'.req.pc = "locked"
    /\ resp'.status \notin {"OK", "NOT_FOUND"}
    /\ open_sync # <<>> /\ resp'.req.sync_token = open_sync[1].token

PromotedAs(f, p, metadata) ==
    f[Resolve(p)].kind = "file" /\ f[Resolve(p)].size = metadata.size

C30_TransferUsesSessionDirs ==
    [][\A h \in Procs :
          (req[h].pc = "idle" /\ req'[h].op = "send_file" /\ req'[h].pc = "create")
             => /\ req'[h].tmp_dir = open_sync[1].id
                /\ req'[h].file_id = open_sync[1].files[req'[h].path].file_id]_vars


Streaming(g) ==
    req[g].op = "send_file" /\ req[g].pc \in {"create", "verify", "rename", "marker"}

\* C32: a transfer past its lookup holds no lock of the slot: while it
\* streams, a handler that is free obtains the write lock for begin, resume
\* or finalize as soon as no other handler holds it, and another transfer
\* passes its own lookup under the read lock.
C32_StreamingHoldsNoLock ==
    \A g \in Procs :
        Streaming(g) =>
            /\ g \notin wlock
            /\ \A h \in Procs :
                  (Free(h) /\ wlock = {}) =>
                      /\ nreq < MaxRequests =>
                            /\ ENABLED ReceiveBegin(h, SessionDiffs, MaxRequests)
                            /\ ENABLED ReceiveResume(h, MaxRequests)
                            /\ ENABLED ReceiveFinalize(h, MaxRequests)
                      /\ nsend < MaxTransfers => ENABLED SendFileCheck(h)

\* a transfer is writing its body while a resume holds the write lock
C32_Witness ==
    \E g \in Procs, h \in Procs :
        /\ Streaming(g) /\ req[g].pc = "verify"
        /\ req[h].op = "resume" /\ req[h].pc = "locked"
        /\ h \in wlock


\* the sequences that list the items of s in another order
Reorderings(s) ==
    {[i \in 1..Len(s) |-> s[o[i]]] : o \in Orders(1..Len(s))}

\* the paths of a bucket go up strictly
Ascending(bucket) ==
    \A i \in 1..Len(bucket), j \in 1..Len(bucket) :
        i < j => PathLess(bucket[i][1], bucket[j][1])

\* C33: the diff built does not depend on the order of the items of either
\* snapshot: every permutation of local.items and of remote.items gives the
\* same four sequences, and each bucket is sorted ascending by path.
C33_BuildIgnoresOrder ==
    client.pc = "built" =>
        /\ \A local \in Reorderings(client.local), remote \in Reorderings(client.remote) :
              DiffBuild(local, remote) = client.diff
        /\ Ascending(client.diff.added) /\ Ascending(client.diff.modified)
        /\ Ascending(client.diff.type_changed) /\ Ascending(client.diff.deleted)

\* a diff built from two snapshots that list the same two files in
\* different orders, with two entries in one bucket
C33_Witness ==
    /\ client.pc = "built"
    /\ Len(client.local) = 2 /\ Len(client.remote) = 2
    /\ client.local[1].relative_path = <<"sub">>
    /\ client.remote[1].relative_path = <<"a.txt">>
    /\ Len(client.diff.modified) = 2


(***************************************************************************)
(* The transfer loop with its JoinSet (main.rs 219-293), for every value   *)
(* of --max-parallel-transfers the command line accepts (a usize).         *)
(***************************************************************************)
NoFile == <<"no file">>

InitPool ==
    /\ InitServer
    /\ \E t \in Ids, files \in TransferSets, max \in 0..MaxParallelTransfers :
          client = [pc |-> "transfer", sync_token |-> t, files |-> files, todo |-> files,
                    tasks |-> {}, attempted |-> {}, errors |-> {}, finalize_sent |-> FALSE,
                    max |-> max, opened |-> NoFile]

\* the next key of transfer_file_ids: File::open fails and the error is
\* reported, or the file is open and waits for room in the pool
PoolOpenFile ==
    /\ client.pc = "transfer" /\ client.opened = NoFile
    /\ \E path \in client.todo :
          \/ ClientStep([client EXCEPT !.todo = @ \ {path},
                                       !.attempted = @ \cup {path},
                                       !.errors = @ \cup {path}])
          \/ ClientStep([client EXCEPT !.todo = @ \ {path}, !.opened = path])

\* while task_pool.len() >= max_parallel_transfers:
\* task_pool.join_next().await.unwrap()?; join_next of an empty JoinSet is
\* None and unwrap panics
PoolJoinNext ==
    /\ client.pc = "transfer" /\ client.opened # NoFile
    /\ Cardinality(client.tasks) >= client.max
    /\ IF client.tasks = {}
       THEN ClientStep([client EXCEPT !.pc = "panicked"])
       ELSE \E path \in client.tasks, ok \in BOOLEAN :
               ClientStep([client EXCEPT !.tasks = @ \ {path},
                                         !.errors = IF ok THEN @ ELSE @ \cup {path}])

\* task_pool.spawn of the request for the open file
PoolSpawn ==
    /\ client.pc = "transfer" /\ client.opened # NoFile
    /\ Cardinality(client.tasks) < client.max
    /\ ClientStep([client EXCEPT !.tasks = @ \cup {client.opened},
                                 !.attempted = @ \cup {client.opened},
                                 !.opened = NoFile])

PoolLoopEnds ==
    /\ client.pc = "transfer" /\ client.opened = NoFile /\ client.todo = {}
    /\ ClientStep([client EXCEPT !.pc = "join"])

\* while let Some(result) = task_pool.join_next().await
PoolJoinRest ==
    /\ client.pc = "join"
    /\ client.tasks # {}
    /\ \E path \in client.tasks, ok \in BOOLEAN :
          ClientStep([client EXCEPT !.tasks = @ \ {path},
                                    !.errors = IF ok THEN @ ELSE @ \cup {path}])

NextPool ==
    \/ PoolOpenFile \/ PoolJoinNext \/ PoolSpawn \/ PoolLoopEnds \/ PoolJoinRest
    \/ ClientJoined \/ ClientFinalize

SpecPool == InitPool /\ [][NextPool]_vars

\* C34: the tasks of the pool never number more than
\* max_parallel_transfers, and for every value of the bound the loop ends
\* only when every file of transfer_file_ids was attempted.
C34_PoolBoundedAllAttempted ==
    /\ Cardinality(client.tasks) <= client.max
    /\ client.pc # "transfer" => client.attempted = client.files

(***************************************************************************)
(* The filtered walk of make_snapshot: FallibleEntryFilter over            *)
(* WalkDir::new(from_dir).min_depth(1), with should_ignore as its filter.  *)
(***************************************************************************)
\* the relative paths of the trees walked
WalkPaths ==
    {<<"a.txt">>, <<"sub">>, <<"sub", "b.txt">>, <<"sub", "in">>, <<"sub", "in", "c.md">>}

\* the trees walked: an entry exists only in a directory
WalkTrees ==
    {f \in [WalkPaths -> {NoEntry, DirEntry, FileEntry(1, 1, 0)}] :
        \A q \in WalkPaths :
            (f[q].kind # "none" /\ Len(q) > 1) => f[Parent(q)].kind = "dir"}

\* the SnapshotOptions of the walks
WalkOptions ==
    [ignore_paths : {{}, {<<"sub", "in">>}, {<<"a.txt">>}},
     ignore_names : {{}, {"sub"}, {"b.txt"}, {"in"}},
     ignore_exts : {{}, {"txt"}}]

\* Path::extension of the names of WalkPaths
Extension(name) ==
    IF name \in {"a.txt", "b.txt"} THEN <<"txt">>
    ELSE IF name = "c.md" THEN <<"md">>
    ELSE <<>>

\* relative_path.strip_prefix(c).is_ok()
StripPrefixOk(relative_path, c) ==
    Len(c) <= Len(relative_path) /\ SubSeq(relative_path, 1, Len(c)) = c

should_ignore(options, relative_path, mt) ==
    IF \E c \in options.ignore_paths : StripPrefixOk(relative_path, c) THEN TRUE
    ELSE IF \E c \in options.ignore_names :
                \E i \in 1..Len(relative_path) : relative_path[i] = c THEN TRUE
    ELSE IF /\ mt.kind = "file"
            /\ Extension(relative_path[Len(relative_path)]) # <<>>
            /\ \E c \in options.ignore_exts :
                   c = Extension(relative_path[Len(relative_path)])[1] THEN TRUE
    ELSE FALSE

\* the entries of the directory dir of the tree f
ChildrenOf(f, dir) == {q \in WalkPaths : f[q].kind # "none" /\ Parent(q) = dir}

\* a rejected entry makes the filter call skip_current_dir
SkipsNothing(mt) == FALSE

SkipsCurrentDir(mt) == mt.kind = "dir"

\* walkdir's stack of directory listings without the exhausted ones on top
RECURSIVE Exhausted(_)
Exhausted(stack) ==
    IF stack = <<>> \/ stack[Len(stack)] # <<>> THEN stack
    ELSE Exhausted(SubSeq(stack, 1, Len(stack) - 1))

\* walkdir's IntoIter::next on a stack with an entry left: the entry
\* comes off the listing on top, and a directory's listing (its entries in
\* the order list) goes on top of the stack before the entry is yielded
IterNext(f, stack, list) ==
    LET st == Exhausted(stack)
        top == st[Len(st)]
        entry == Head(top)
        rest == [st EXCEPT ![Len(st)] = Tail(top)]
    IN [entry |-> entry,
        stack |-> IF f[entry].kind = "dir" THEN Append(rest, list) ELSE rest]

\* walkdir's skip_current_dir: the listing on top of the stack is dropped
skip_current_dir(stack) == SubSeq(stack, 1, Len(stack) - 1)

InitWalk ==
    /\ InitServer
    /\ \E f \in WalkTrees, options \in WalkOptions :
       \E list \in Orders(ChildrenOf(f, <<>>)) :
          client = [pc |-> "walk", tree |-> f, options |-> options, stack |-> <<list>>,
                    seen |-> <<>>, items |-> <<>>]

\* an entry the filter keeps: the walk yields it and make_snapshot pushes
\* its snapshot item
WalkKeeps ==
    /\ client.pc = "walk"
    /\ Exhausted(client.stack) # <<>>
    /\ LET entry == Head(Exhausted(client.stack)[Len(Exhausted(client.stack))]) IN
       /\ ~should_ignore(client.options, entry, client.tree[entry])
       /\ \E list \in Orders(ChildrenOf(client.tree, entry)) :
             LET n == IterNext(client.tree, client.stack, list) IN
             ClientStep([client EXCEPT
                 !.stack = n.stack,
                 !.seen = Append(@, entry),
                 !.items = Append(@, snapshot_item(entry, client.tree[entry]))])

\* an entry the filter rejects: the loop of next goes on, past the
\* directory's content when the entry is a directory
WalkRejects ==
    /\ client.pc = "walk"
    /\ Exhausted(client.stack) # <<>>
    /\ LET entry == Head(Exhausted(client.stack)[Len(Exhausted(client.stack))]) IN
       /\ should_ignore(client.options, entry, client.tree[entry])
       /\ \E list \in Orders(ChildrenOf(client.tree, entry)) :
             LET n == IterNext(client.tree, client.stack, list) IN
             ClientStep([client EXCEPT
                 !.stack = IF SkipsCurrentDir(client.tree[entry])
                           THEN skip_current_dir(n.stack) ELSE n.stack,
                 !.seen = Append(@, entry)])

\* self.iter.next()? is None: the snapshot is complete
WalkEnds ==
    /\ client.pc = "walk"
    /\ Exhausted(client.stack) = <<>>
    /\ ClientStep([client EXCEPT !.pc = "walked", !.stack = <<>>])

NextWalk == WalkKeeps \/ WalkRejects \/ WalkEnds

SpecWalk == InitWalk /\ [][NextWalk]_vars

\* the entries the filter was evaluated on, and the paths of the snapshot
SeenSet == {client.seen[i] : i \in 1..Len(client.seen)}

ItemPaths == {client.items[i].relative_path : i \in 1..Len(client.items)}

Rejected(q) == should_ignore(client.options, q, client.tree[q])

\* C35: the filter is evaluated on an entry before the walk descends
\* into it; no entry under a rejected directory is visited or is in the
\* snapshot; a rejected file does not stop the walk of its siblings: the
\* complete walk has visited every entry whose ancestors were all kept, and
\* its snapshot has those of them that the filter keeps.
C35_FilterPrunesSubtrees ==
    /\ \A q \in SeenSet : \A a \in WalkPaths :
           IsAncestor(a, q) =>
               /\ ~Rejected(a)
               /\ \E i, j \in 1..Len(client.seen) :
                      i < j /\ client.seen[i] = a /\ client.seen[j] = q
    /\ ItemPaths = {q \in SeenSet : ~Rejected(q)}
    /\ client.pc = "walked" =>
           SeenSet = {q \in WalkPaths :
                         /\ client.tree[q].kind # "none"
                         /\ \A a \in WalkPaths : IsAncestor(a, q) => ~Rejected(a)}

\* a complete walk that rejected a directory with an entry in it, and
\* rejected a file before it visited a sibling of the file
C35_Witness ==
    /\ client.pc = "walked"
    /\ \E d \in SeenSet :
          /\ client.tree[d].kind = "dir" /\ Rejected(d)
          /\ ChildrenOf(client.tree, d) # {}
    /\ \E i, j \in 1..Len(client.seen) :
          /\ i < j
          /\ client.tree[client.seen[i]].kind = "file" /\ Rejected(client.seen[i])
          /\ Parent(client.seen[i]) = Parent(client.seen[j])


\* the step is a finalize made with the token of the open session, every
\* file of which has its marker in the completion directory
FinalizeReady ==
    /\ resp'.req.op = "finalize" /\ resp'.req.pc = "locked"
    /\ open_sync # <<>> /\ resp'.req.sync_token = open_sync[1].token
    /\ \A p \in DOMAIN open_sync[1].files :
           markers[open_sync[1].id][open_sync[1].files[p].file_id]

StaleTransfer(h) ==
    /\ resp.req.op = "resume" /\ resp.status = "OK"
    /\ open_sync # <<>> /\ resp.before # <<>>
    /\ resp.before[1].token # open_sync[1].token
    /\ req[h].op = "send_file" /\ req[h].sync_id = resp.before[1].token

SnapshotCheck(h) ==
    /\ Free(h)
    /\ nreq < MaxRequests
    /\ wlock = {}
    /\ LET r == [IdleReq EXCEPT !.op = "snapshot", !.pc = "check"] IN
       IF is_sync_open(open_sync)
       THEN /\ resp' = [req |-> r, status |-> "FORBIDDEN", infos |-> NoInfos,
                        before |-> open_sync]
            /\ UNCHANGED req
       ELSE /\ req' = [req EXCEPT ![h] = [r EXCEPT !.pc = "walk"]]
            /\ resp' = NoResp
    /\ nreq' = nreq + 1
    /\ UNCHANGED <<fs, dirs, pending, markers, open_sync, wlock, nsend, client>>

\* make_snapshot(path, ..) after the block, with no lock held
SnapshotWalk(h) ==
    /\ req[h].op = "snapshot" /\ req[h].pc = "walk"
    /\ \E order \in WalkOrders :
          /\ resp' = [req |-> req[h], status |-> "OK", infos |-> NoInfos,
                      before |-> open_sync, snapshot |-> make_snapshot(fs, order)]
          /\ req' = [req EXCEPT ![h] = IdleReq]
    /\ UNCHANGED <<fs, dirs, pending, markers, open_sync, wlock, nreq, nsend, client>>

NextSnapshot ==
    \E h \in Procs :
        \/ ReceiveBegin(h, SessionDiffs, MaxRequests)
        \/ BeginSync(h)
        \/ SnapshotCheck(h)
        \/ SnapshotWalk(h)

SpecSnapshot == Init /\ [][NextSnapshot]_vars

\* C38: a snapshot request that finds a session open is refused, and no
\* walk of the content tree is under way while the slot has an open
\* session.
C38_NoWalkDuringSession ==
    /\ (resp.req.op = "snapshot" /\ resp.req.pc = "check") => resp.status = "FORBIDDEN"
    /\ \A h \in Procs : (req[h].op = "snapshot" /\ req[h].pc = "walk") => open_sync = <<>>


\* the step is a begin that answers with an error
BeginFails ==
    resp'.req.op = "begin" /\ resp'.req.pc = "locked" /\ resp'.status # "OK"

\* C39: a begin that returns an error leaves the slot's disk as it was:
\* no staging directory it created remains and nothing is removed from the
\* content tree.
C39_FailedBeginLeavesDisk ==
    [][BeginFails => (dirs' = dirs /\ fs' = fs)]_vars


\* the number of entries the diff d has at path p, its four buckets together
EntriesAt(d, p) ==
    Len(At(d.added, p)) + Len(At(d.modified, p)) + Len(At(d.type_changed, p))
    + Len(At(d.deleted, p))

\* C40: for snapshots with unique paths the diff built has at most one
\* entry per path, its four buckets together; in the plan derived from it
\* no path is twice in send_files and no path is in both send_files and
\* create_dirs.
C40_PathsOncePerDiff ==
    /\ DiffWasBuilt => \A p \in RawPaths : EntriesAt(client.diff, p) <= 1
    /\ (PlanDerived /\ client.src = "snapshots") =>
           /\ \A p \in RawPaths : EntriesAt(client.filtered, p) <= 1
           /\ \A i, j \in 1..Len(client.ops.send_files) :
                  client.ops.send_files[i][1] = client.ops.send_files[j][1] => i = j
           /\ \A i \in 1..Len(client.ops.send_files), j \in 1..Len(client.ops.create_dirs) :
                  client.ops.send_files[i][1] # client.ops.create_dirs[j]

\* a plan derived from snapshots that sends two files, one of them
\* modified, and creates a directory
C40_Witness ==
    /\ PlanDerived /\ client.src = "snapshots"
    /\ Len(client.ops.send_files) = 2
    /\ client.ops.create_dirs # <<>>
    /\ client.filtered.modified # <<>>

====
